---- MODULE Spec2Model ----
(***************************************************************************)
(* A model of wad2pic (src/wad2pic.py): the sector rasterizer of drawMap   *)
(* (outline, flood fill with overspill roll-back, seam repair), the        *)
(* depth-composited renderer, the transform pipeline of generateMapPic,    *)
(* the batch loop of wad2pic and the geometry decoders.                    *)
(*                                                                         *)
(* Python lists are modelled as sequences; the 0-based index i of the code *)
(* is element i+1 of the sequence (see At).  A pixel is a pair <<x, y>>.   *)
(***************************************************************************)
EXTENDS Integers, Sequences, FiniteSets, TLC

(***************************************************************************)
(* Bounds of the model.                                                    *)
(***************************************************************************)
\* largest side of the square room of the rasterizer levels
MaxSide == 4
\* options["margins"] of the modelled runs (the program's default is 300)
Margins == 2

\* the batch of wad2pic: episodes, maps per episode and MAPxx names of the
\* "ALL" list (the program's list has 4, 9 and 32)
Episodes == 2
EpisodeMaps == 2
Doom2Maps == 2

\* the largest number of whole records in a decoded lump
MaxRecords == 2

\* the largest number of directory entries of a flat container
MaxLumps == 3

\* the largest number of pixels of an image given to palletizePic or
\* gammaCorrection
MaxPixels == 2

\* the largest width and height of a picture in the column format, and the
\* largest number of bytes of column data in its lump
MaxPicture == 2
MaxData == 4

(***************************************************************************)
(* Program constants.                                                      *)
(***************************************************************************)
\* the "no sidedef" value of LineDef.front / LineDef.back
NoSide == 65535
\* findFloodPoint's "no flood point" value
NoPoint == -1000000
\* initial extremes of getImageSizeOffset
FarAway == 100000
\* options["coefX"], options["coefY"] in tenths (defaults 0 and .8)
CoefX10 == 0
CoefY10 == 8

VARIABLES
    \* the level, as the decoders return it
    vertexes, linedefs, sidedefs, sectors,
    \* position in the pipeline
    pc,
    \* the dictionary of walls genWalls returns
    walls,
    \* drawMap: blueprint image, its size and offset, the sector index buffer
    imSize, offset, px, sectorData,
    \* drawMap's fill loop: linedef number and side (0 front, 1 back)
    n, side,
    \* the running floodFill call: its position, arguments and toGo list
    fpc, fillSector, startPix, toGo,
    \* history: blueprint and index buffer when the forward fill began, the
    \* pixels the running floodFill call popped and wrote, the last of them,
    \* how the last fill attempt ended, the sectors a fill was started for
    snapPx, snapSd, written, thisPix, outcome, started,
    \* wad2pic: options["debug"], the list of map names, the loop position,
    \* where the call is; the map names whose generateMapPic raises, and the
    \* history of the names generateMapPic was called with
    debug, listOfMapNames, mapIndex, bpc, failing, attempted,
    \* a geometry decoder: the lump it is given, the zStyle flag, which of
    \* the five decoders is called and how the call ended
    lump, zStyle, kind, decoded,
    \* drawMap's second image: the z-buffer and, for every pixel of the final
    \* picture, what painted it last; the walls handed to pasteWall one by
    \* one and the ones already pasted
    zBuffer, px2, scene, pasted,
    \* generateMapPic: the objects of the level, the lump names of the
    \* archive in the order the set yields them, and the options
    things, allLumps, options,
    \* history: the transforms generateMapPic applied, in order, and the
    \* vertexes and objects as they were loaded
    stages, loaded,
    \* what parseThings and getPictures return; where the loop over walls
    \* and objects of drawMap is, and what drawMap has visited so far
    thingsList, sprites, drawPos, drawLog,
    \* the WADData object of a flat container, and the name and the result
    \* of its last getLump call
    wad, fetched,
    \* an image handed to palletizePic or gammaCorrection, the palette, and
    \* history: the last operation on the image and the image before it
    im, pallete, imLog

levelVars == <<vertexes, linedefs, sidedefs>>
fillVars == <<fpc, fillSector, startPix, toGo, snapPx, snapSd, written,
              thisPix, outcome>>
rasterVars == <<levelVars, sectors, pc, walls, imSize, offset, px, sectorData,
                n, side, fillVars, started>>
batchVars == <<debug, listOfMapNames, mapIndex, bpc, failing, attempted>>
decodeVars == <<lump, zStyle, kind, decoded>>

paintVars == <<zBuffer, px2, scene, pasted>>

thingVars == <<things, allLumps, options, stages, loaded>>
drawVars == <<thingsList, sprites, drawPos, drawLog>>

archiveVars == <<wad, fetched, im, pallete, imLog>>
notImage == <<wad, fetched>>

vars == <<rasterVars, batchVars, decodeVars, paintVars, thingVars, drawVars,
          archiveVars>>

\* the variables each specification leaves alone
notFill == <<batchVars, decodeVars, paintVars, thingVars, drawVars,
             archiveVars>>
notBatch == <<rasterVars, decodeVars, paintVars, thingVars, drawVars,
              archiveVars>>
notDecode == <<rasterVars, batchVars, paintVars, thingVars, drawVars,
               archiveVars>>
notPaste == <<levelVars, sectors, pc, walls, px, sectorData, n, side,
              fillVars, started, batchVars, decodeVars, thingVars, drawVars,
              archiveVars>>
notArchive == <<rasterVars, batchVars, decodeVars, paintVars, thingVars,
                drawVars>>
\* what the loop over walls and objects leaves alone
notDraw == <<levelVars, sectors, walls, imSize, offset, px, sectorData, n,
             side, fillVars, started, batchVars, decodeVars, thingVars,
             thingsList, sprites, scene, pasted, archiveVars>>

\* an image that has not been created
NoImage == <<>>

\* the parts of the program a specification does not run
IdleRaster ==
    /\ vertexes = <<>> /\ linedefs = <<>> /\ sidedefs = <<>> /\ sectors = <<>>
    /\ pc = "off" /\ walls = <<>>
    /\ imSize = <<0, 0>> /\ offset = <<0, 0>>
    /\ px = NoImage /\ sectorData = NoImage
    /\ n = 0 /\ side = 0
    /\ fpc = "idle" /\ fillSector = -1 /\ startPix = <<0, 0>> /\ toGo = <<>>
    /\ snapPx = NoImage /\ snapSd = NoImage /\ written = {}
    /\ thisPix = <<0, 0>> /\ outcome = "none" /\ started = {}

IdleBatch ==
    /\ debug = FALSE /\ listOfMapNames = <<>> /\ mapIndex = 0 /\ bpc = "off"
    /\ failing = {} /\ attempted = <<>>

IdleDecode ==
    /\ lump = [isNone |-> TRUE, data |-> <<>>, position |-> 0]
    /\ zStyle = FALSE /\ kind = "off"
    /\ decoded = [status |-> "off", value |-> <<>>]

IdlePaint ==
    /\ zBuffer = NoImage /\ px2 = NoImage /\ scene = <<>> /\ pasted = <<>>

\* options that leave the level as it is, at the default difficulty
PlainOptions ==
    [shrink |-> 1, rotate |-> 0, scaleY10 |-> 10, difficulty |-> 4,
     deathmatch |-> FALSE]

FirstPos == [n |-> 1, phase |-> "walls", k |-> 1]

IdleDraw ==
    /\ thingsList = <<>> /\ sprites = <<>> /\ drawPos = FirstPos
    /\ drawLog = <<>>

IdleThings ==
    /\ things = <<>> /\ allLumps = <<>> /\ options = PlainOptions
    /\ stages = <<>> /\ loaded = <<>>
    /\ IdleDraw

IdleImage ==
    /\ im = [mode |-> "none", px |-> <<>>]
    /\ pallete = <<>>
    /\ imLog = [op |-> "none"]

IdleArchive ==
    /\ wad = [open |-> FALSE]
    /\ fetched = [asked |-> FALSE]
    /\ IdleImage

(***************************************************************************)
(* Helpers.                                                                *)
(***************************************************************************)
At(seq, i) == seq[i + 1]

Max2(a, b) == IF a > b THEN a ELSE b
Min2(a, b) == IF a < b THEN a ELSE b
Abs(a) == IF a < 0 THEN -a ELSE a
Sgn(a) == IF a > 0 THEN 1 ELSE IF a < 0 THEN -1 ELSE 0

\* Python's int() of the rational num/den (den > 0): truncation towards zero
Trunc(num, den) == IF num >= 0 THEN num \div den ELSE -((-num) \div den)

SetMax(S) == CHOOSE m \in S : \A x \in S : x <= m
SetMin(S) == CHOOSE m \in S : \A x \in S : m <= x

Range(seq) == {seq[i] : i \in 1..Len(seq)}

RECURSIVE Concat(_)
Concat(seqs) == IF seqs = <<>> THEN <<>> ELSE seqs[1] \o Concat(Tail(seqs))

Digits == <<"0", "1", "2", "3", "4", "5", "6", "7", "8", "9">>

\* str(i) for 0 <= i < 10, str(i).zfill(2) for 0 <= i < 100
Str(i) == <<Digits[i + 1]>>
Zfill2(i) == <<Digits[(i \div 10) + 1], Digits[(i % 10) + 1]>>

(***************************************************************************)
(* Level data: the records the decoders build (classes Vertex, LineDef,    *)
(* SideDef, Sector).                                                       *)
(***************************************************************************)
Vertex(x, y) == [x |-> x, y |-> y]

LineDef(beg, end, front, back, topUnpegged, bottomUnpegged) ==
    [beg |-> beg, end |-> end, front |-> front, back |-> back,
     topUnpegged |-> topUnpegged, bottomUnpegged |-> bottomUnpegged]

SideDef(xOffset, yOffset, upper, lower, middle, sector) ==
    [xOffset |-> xOffset, yOffset |-> yOffset, upper |-> upper,
     lower |-> lower, middle |-> middle, sector |-> sector]

Sector(floorHeight, ceilingHeight, floorTexture, ceilingTexture, light) ==
    [floorHeight |-> floorHeight, ceilingHeight |-> ceilingHeight,
     floorTexture |-> floorTexture, ceilingTexture |-> ceilingTexture,
     light |-> light, listOfVerteces |-> <<>>, HOMpassed |-> TRUE]

\* "sidedef != 65535 and sidedef < len(sidedefs)"
SideResolves(sidedef, sds) == sidedef # NoSide /\ sidedef < Len(sds)

(***************************************************************************)
(* checkHOM.                                                               *)
(***************************************************************************)
\* what the first loop of checkHOM appends to sector s, in order
RECURSIVE VertecesOf(_, _, _, _)
VertecesOf(s, lds, sds, i) ==
    IF i > Len(lds) THEN <<>>
    ELSE LET ld == lds[i]
             part(sidedef) ==
                 IF SideResolves(sidedef, sds) /\ At(sds, sidedef).sector = s
                 THEN <<ld.beg, ld.end>> ELSE <<>>
         IN  part(ld.front) \o part(ld.back) \o VertecesOf(s, lds, sds, i + 1)

\* the two checks of the second loop of checkHOM on one sector's list
PassesHOM(list, vs) ==
    LET known == {i \in 1..Len(list) : list[i] < Len(vs)}
        xs == {At(vs, list[i]).x : i \in known}
        ys == {At(vs, list[i]).y : i \in known}
    IN  /\ ~(Len(list) < 6)
        /\ ~(known = {} \/ SetMax(xs) - SetMin(xs) < 2
                        \/ SetMax(ys) - SetMin(ys) < 2)

\* "sectors[sector]" for the sector of a side that resolves: IndexError
\* when the side names a sector the level does not have
SectorMissing(sidedef, sds, secs) ==
    SideResolves(sidedef, sds) /\ At(sds, sidedef).sector >= Len(secs)

\* the first loop of checkHOM raises IndexError
checkHOMRaises(lds, sds, secs) ==
    \E i \in 1..Len(lds) :
        \/ SectorMissing(lds[i].front, sds, secs)
        \/ SectorMissing(lds[i].back, sds, secs)

checkHOM(vs, lds, sds, secs) ==
    [s \in 1..Len(secs) |->
        LET list == VertecesOf(s - 1, lds, sds, 1)
        IN  [secs[s] EXCEPT !.listOfVerteces = list,
                            !.HOMpassed = PassesHOM(list, vs)]]

(***************************************************************************)
(* getImageSizeOffset.                                                     *)
(***************************************************************************)
\* the values one vertex of one linedef side adds to the minimum/maximum
\* search, on axis "x" or "y", for one height
VertexExtent(axis, vs, vertex, height) ==
    IF vertex >= Len(vs) THEN {}
    ELSE IF axis = "x"
         THEN {At(vs, vertex).x,
               Trunc(10 * At(vs, vertex).x - height * CoefX10, 10)}
         ELSE {At(vs, vertex).y,
               Trunc(10 * At(vs, vertex).y - height * CoefY10, 10)}

\* all the values the loops of getImageSizeOffset go through on one axis
ExtentValues(axis, vs, lds, sds, secs) ==
    UNION { VertexExtent(axis, vs, t[3], t[2]) :
        t \in UNION { UNION {
                {<<sidedef, height, vertex>> :
                    height \in {At(secs, At(sds, sidedef).sector).floorHeight,
                                At(secs, At(sds, sidedef).sector).ceilingHeight},
                    vertex \in {lds[i].beg, lds[i].end}}
              : sidedef \in {sd \in {lds[i].front, lds[i].back} :
                                SideResolves(sd, sds)} }
            : i \in 1..Len(lds) } }

\* "sector = sectors[sectorN]" of getImageSizeOffset raises IndexError
getImageSizeOffsetRaises(lds, sds, secs) ==
    \E i \in 1..Len(lds) :
        \/ SectorMissing(lds[i].front, sds, secs)
        \/ SectorMissing(lds[i].back, sds, secs)

getImageSizeOffset(vs, lds, sds, secs) ==
    LET xs == ExtentValues("x", vs, lds, sds, secs)
        ys == ExtentValues("y", vs, lds, sds, secs)
        minX == SetMin(xs \cup {FarAway})
        maxX == SetMax(xs \cup {-FarAway})
        minY == SetMin(ys \cup {FarAway})
        maxY == SetMax(ys \cup {-FarAway})
    IN  [size |-> <<maxX - minX + 2 * Margins, maxY - minY + 2 * Margins>>,
         offset |-> <<-minX + Margins, -minY + Margins>>]

(***************************************************************************)
(* findFloodPoint.                                                         *)
(***************************************************************************)
\* a mutation of SideStep: the two sides swapped
SideStepSwapped(right) == IF right THEN -1 ELSE 1

\* the sideways distance d = 1, signed: the "if right" branch adds it to y
\* for a linedef running east and takes it from x for one running south,
\* the else branch does the opposite
SideStep(right) == IF right THEN 1 ELSE -1

findFloodPoint(ld, vs, right) ==
    IF ld.beg >= Len(vs) \/ ld.end >= Len(vs) THEN <<NoPoint, NoPoint>>
    ELSE LET x1 == At(vs, ld.beg).x
             y1 == At(vs, ld.beg).y
             x2 == At(vs, ld.end).x
             y2 == At(vs, ld.end).y
             x == (x1 + x2) \div 2
             y == (y1 + y2) \div 2
             d == SideStep(right)
         IN  IF Abs(x2 - x1) <= 2 /\ Abs(y2 - y1) <= 2
             THEN <<NoPoint, NoPoint>>
             ELSE <<x - d * Sgn(y2 - y1), y + d * Sgn(x2 - x1)>>

(***************************************************************************)
(* The blueprint image and the index buffer.  PIL's pixel access and numpy *)
(* indexing both count a negative index from the end and raise IndexError  *)
(* for any other index outside the array.                                  *)
(***************************************************************************)
Raster(size) == (0..(size[1] - 1)) \X (0..(size[2] - 1))

Wrap(p, size) == <<IF p[1] < 0 THEN p[1] + size[1] ELSE p[1],
                   IF p[2] < 0 THEN p[2] + size[2] ELSE p[2]>>

InImage(p, size) == Wrap(p, size) \in Raster(size)

\* the pixels of ImageDraw.line between two points, both ends included
LinePoints(p, q) ==
    LET dx == q[1] - p[1]
        dy == q[2] - p[2]
        len == Max2(Abs(dx), Abs(dy))
    IN  IF len = 0 THEN {p}
        ELSE {<<p[1] + Trunc(2 * t * dx + Sgn(dx) * len, 2 * len),
                p[2] + Trunc(2 * t * dy + Sgn(dy) * len, 2 * len)>> : t \in 0..len}

\* "Draw Linedefs on the blueprint": the pixels that end up white
OutlinePixels(vs, lds, off, size) ==
    UNION { IF lds[i].beg >= Len(vs) \/ lds[i].end >= Len(vs) THEN {}
            ELSE LinePoints(<<At(vs, lds[i].beg).x + off[1],
                              At(vs, lds[i].beg).y + off[2]>>,
                            <<At(vs, lds[i].end).x + off[1],
                              At(vs, lds[i].end).y + off[2]>>) \cap Raster(size)
          : i \in 1..Len(lds) }

Blueprint(vs, lds, off, size) ==
    [p \in Raster(size) |->
        IF p \in OutlinePixels(vs, lds, off, size) THEN "white" ELSE "black"]

(***************************************************************************)
(* drawMap.floodFill, one iteration of its while loop at a time.           *)
(***************************************************************************)
\* currColor and fillColor
FillColours(erase) ==
    IF erase THEN [curr |-> "cyan", fill |-> "black"]
    ELSE [curr |-> "black", fill |-> "cyan"]

\* a mutation of IndexValue: the reverse fill leaves the index in place
IndexValueKept(sector, erase) == sector

\* what floodFill stores in sectorData for a pixel it colours
IndexValue(sector, erase) == IF erase THEN -1 ELSE sector

\* a mutation of ReachedBorder: the far edges tested one pixel too late
ReachedBorderLate(nextPix, size) ==
    \/ nextPix[1] < 0 \/ nextPix[1] > size[1]
    \/ nextPix[2] < 0 \/ nextPix[2] > size[2]

\* "If we reached the border, something if wrong, return False"
ReachedBorder(nextPix, size) ==
    \/ nextPix[1] < 0 \/ nextPix[1] = size[1]
    \/ nextPix[2] < 0 \/ nextPix[2] = size[2]

\* the second test of the neighbour loop
Eligible(img, nextPix, size, curr) ==
    /\ img[Wrap(nextPix, size)] = curr
    /\ nextPix[1] >= 0 /\ nextPix[2] >= 0
    /\ nextPix[1] < size[1] /\ nextPix[2] < size[2]

Neighbours4 == << <<-1, 0>>, <<0, -1>>, <<1, 0>>, <<0, 1>> >>

\* the "for dx, dy in ..." loop from its k-th neighbour on: the toGo list it
\* leaves and whether the call goes on ("run"), returns False or raises
RECURSIVE ScanNeighbours(_, _, _, _, _, _)
ScanNeighbours(k, p, img, size, curr, stack) ==
    IF k > Len(Neighbours4) THEN [toGo |-> stack, ret |-> "run"]
    ELSE LET nextPix == <<p[1] + Neighbours4[k][1], p[2] + Neighbours4[k][2]>>
         IN  IF ReachedBorder(nextPix, size)
             THEN [toGo |-> stack, ret |-> "False"]
             ELSE IF ~InImage(nextPix, size)
             THEN [toGo |-> stack, ret |-> "IndexError"]
             ELSE IF Eligible(img, nextPix, size, curr)
             THEN ScanNeighbours(k + 1, p, img, size, curr,
                                 Append(stack, nextPix))
             ELSE ScanNeighbours(k + 1, p, img, size, curr, stack)

\* one iteration of "while len(toGo) > 0"
FillIteration(img, sd, stack, sector, erase, size) ==
    LET p == stack[Len(stack)]
        rest == SubSeq(stack, 1, Len(stack) - 1)
        q == Wrap(p, size)
    IN  IF q \notin Raster(size)
        THEN [px |-> img, sectorData |-> sd, toGo |-> rest,
              ret |-> "IndexError", thisPix |-> p]
        ELSE LET img2 == [img EXCEPT ![q] = FillColours(erase).fill]
                 sd2 == [sd EXCEPT ![q] = IndexValue(sector, erase)]
                 scan == ScanNeighbours(1, p, img2, size,
                                        FillColours(erase).curr, rest)
             IN  [px |-> img2, sectorData |-> sd2, toGo |-> scan.toGo,
                  ret |-> scan.ret, thisPix |-> p]

\* a mutation of InitialToGo: the colour of the start pixel is not tested
InitialToGoAnyColour(img, seed, size, erase) == <<seed>>

\* the toGo list floodFill starts with
InitialToGo(img, seed, size, erase) ==
    IF img[Wrap(seed, size)] = FillColours(erase).curr THEN <<seed>> ELSE <<>>

(***************************************************************************)
(* drawMap.fillSeams: the double loop over the blueprint, column by        *)
(* column, changing sectorData and the blueprint as it goes.               *)
(***************************************************************************)
SeamNeighbours == << <<1, 0>>, <<0, 1>>, <<-1, 0>>, <<0, -1>> >>

SeamNeighbour(p, k) ==
    <<p[1] + SeamNeighbours[k][1], p[2] + SeamNeighbours[k][2]>>

\* reading sectorData or the blueprint at a neighbour beyond the last row
\* or column raises IndexError
SeamRaises(p, size) ==
    \E k \in 1..Len(SeamNeighbours) : ~InImage(SeamNeighbour(p, k), size)

\* the loop over the four neighbours of p from the k-th on: maxNeighbour
RECURSIVE MaxNeighbourAnyColour(_, _, _, _, _, _)
\* a mutation of MaxNeighbour: the colour of the neighbour is not tested
MaxNeighbourAnyColour(k, p, img, sd, size, best) ==
    IF k > Len(SeamNeighbours) THEN best
    ELSE MaxNeighbourAnyColour(k + 1, p, img, sd, size,
                               Max2(best, sd[Wrap(SeamNeighbour(p, k), size)]))

RECURSIVE MaxNeighbour(_, _, _, _, _, _)
MaxNeighbour(k, p, img, sd, size, best) ==
    IF k > Len(SeamNeighbours) THEN best
    ELSE LET q == Wrap(SeamNeighbour(p, k), size)
         IN  IF img[q] # "blue"
             THEN MaxNeighbour(k + 1, p, img, sd, size, Max2(best, sd[q]))
             ELSE MaxNeighbour(k + 1, p, img, sd, size, best)

RECURSIVE SeamColumn(_, _, _, _, _)
\* "for j in range(im.size[1])" of column i, from row j on
SeamColumn(i, j, img, sd, size) ==
    IF j >= size[2]
    THEN [px |-> img, sectorData |-> sd, ret |-> "None"]
    ELSE LET p == <<i, j>>
         IN  IF img[p] # "white" THEN SeamColumn(i, j + 1, img, sd, size)
             ELSE IF SeamRaises(p, size)
             THEN [px |-> img, sectorData |-> sd, ret |-> "IndexError"]
             ELSE LET m == MaxNeighbour(1, p, img, sd, size, -1)
                  IN  IF m > -1
                      THEN SeamColumn(i, j + 1, [img EXCEPT ![p] = "blue"],
                                      [sd EXCEPT ![p] = m], size)
                      ELSE SeamColumn(i, j + 1, img, sd, size)

RECURSIVE SeamsFrom(_, _, _, _)
\* "for i in range(im.size[0])" from column i on
SeamsFrom(i, img, sd, size) ==
    IF i >= size[1]
    THEN [px |-> img, sectorData |-> sd, ret |-> "None"]
    ELSE LET c == SeamColumn(i, 0, img, sd, size)
         IN  IF c.ret = "IndexError" THEN c
             ELSE SeamsFrom(i + 1, c.px, c.sectorData, size)

fillSeams(img, sd, size) == SeamsFrom(0, img, sd, size)

(***************************************************************************)
(* genWalls.  Texture names are modelled without their zero padding: "-"   *)
(* is the padded single dash.  A distance key is kept times 20, an exact   *)
(* integer: (start.x + end.x)/2 * hCoefX + (start.y + end.y)/2 * hCoefY.   *)
(***************************************************************************)
NoTexture == "-"

Wall(sx, sy, ex, ey, floor, ceiling, texture, xOffset, yOffset, fromTop, position, light, isBack) ==
    [sx |-> sx, sy |-> sy, ex |-> ex, ey |-> ey, floor |-> floor,
     ceiling |-> ceiling, texture |-> texture, xOffset |-> xOffset,
     yOffset |-> yOffset, fromTop |-> fromTop, position |-> position,
     light |-> light, isBack |-> isBack]

Distance20(start, end) ==
    (start.x + end.x) * CoefX10 + (start.y + end.y) * CoefY10

\* "F_SKY1" in name
IsSky(name) == name = "F_SKY1"

\* a mutation of MiddleWalls: a two-sided linedef gets its front face only
MiddleWallsOneFace(ld, vs, sds, secs) ==
    LET start == At(vs, ld.beg)
        end == At(vs, ld.end)
    IN  IF ld.front < Len(sds) /\ At(sds, ld.front).middle # NoTexture
        THEN LET front == At(sds, ld.front)
                 sector == At(secs, front.sector)
                 twoSided == ld.back < Len(sds) /\ ld.back # NoSide
             IN  <<Wall(start.x, start.y, end.x, end.y, sector.floorHeight,
                        sector.ceilingHeight, front.middle, front.xOffset,
                        front.yOffset, ~twoSided,
                        IF twoSided THEN "mid" ELSE "proper", sector.light,
                        FALSE)>>
        ELSE <<>>

\* "Middle part (wall proper)": the walls the first if of the loop body adds
MiddleWalls(ld, vs, sds, secs) ==
    LET start == At(vs, ld.beg)
        end == At(vs, ld.end)
    IN  IF ld.front < Len(sds) /\ At(sds, ld.front).middle # NoTexture
        THEN LET front == At(sds, ld.front)
                 sector == At(secs, front.sector)
                 twoSided == ld.back < Len(sds) /\ ld.back # NoSide
             IN  IF twoSided
                 THEN LET back == At(sds, ld.back)
                          backsector == At(secs, back.sector)
                          floor == Max2(sector.floorHeight,
                                        backsector.floorHeight)
                          ceiling == Min2(sector.ceilingHeight,
                                          backsector.ceilingHeight)
                      IN  <<Wall(start.x, start.y, end.x, end.y, floor,
                                 ceiling, front.middle, front.xOffset,
                                 front.yOffset, FALSE, "mid", sector.light,
                                 FALSE),
                            Wall(end.x, end.y, start.x, start.y, floor,
                                 ceiling, back.middle, back.xOffset,
                                 back.yOffset, FALSE, "mid",
                                 backsector.light, FALSE)>>
                 ELSE <<Wall(start.x, start.y, end.x, end.y,
                             sector.floorHeight, sector.ceilingHeight,
                             front.middle, front.xOffset, front.yOffset,
                             TRUE, "proper", sector.light, FALSE)>>
        ELSE <<>>

\* a mutation of BottomFromTop: the flag is not looked at
BottomFromTopAlways(ld) == TRUE

\* "fromTop = True; if linedef.bottomUnpegged: fromTop = False"
BottomFromTop(ld) == ld.bottomUnpegged = 0

\* "fromTop = False; if linedef.topUnpegged == 1: fromTop = True"
TopFromTop(ld) == ld.topUnpegged = 1

\* "Generate bottom and top sidedefs": the walls the second if adds.  The
\* local isBack is False when the bottom part is reached and keeps the
\* value the bottom part gave it when the top part is reached.
StepWalls(ld, vs, sds, secs) ==
    LET start == At(vs, ld.beg)
        end == At(vs, ld.end)
    IN  IF ld.front < Len(sds) /\ ld.back < Len(sds) /\ ld.back # NoSide
        THEN LET front == At(sds, ld.front)
                 back == At(sds, ld.back)
                 frontSector == At(secs, front.sector)
                 backSector == At(secs, back.sector)
                 frontFloor == frontSector.floorHeight
                 backFloor == backSector.floorHeight
                 frontCeiling == frontSector.ceilingHeight
                 backCeiling == backSector.ceilingHeight
                 isSky == IsSky(backSector.ceilingTexture)
                          /\ IsSky(frontSector.ceilingTexture)
                 lowFront == Min2(frontFloor, backFloor) = frontFloor
                 lowSide == IF lowFront THEN front ELSE back
                 isBackLow == frontFloor # backFloor /\ ~lowFront
                 bottomWalls ==
                     IF frontFloor # backFloor
                     THEN <<Wall(start.x, start.y, end.x, end.y,
                                 Min2(frontFloor, backFloor),
                                 Max2(frontFloor, backFloor),
                                 lowSide.lower, lowSide.xOffset,
                                 lowSide.yOffset, BottomFromTop(ld),
                                 "bottom", At(secs, lowSide.sector).light,
                                 isBackLow)>>
                     ELSE <<>>
                 highFront == Max2(frontCeiling, backCeiling) = frontCeiling
                 highSide == IF highFront THEN front ELSE back
                 topWalls ==
                     IF frontCeiling # backCeiling /\ ~isSky
                     THEN <<Wall(start.x, start.y, end.x, end.y,
                                 Min2(frontCeiling, backCeiling),
                                 Max2(frontCeiling, backCeiling),
                                 highSide.upper, highSide.xOffset,
                                 highSide.yOffset, TopFromTop(ld),
                                 "top", At(secs, highSide.sector).light,
                                 isBackLow \/ ~highFront)>>
                     ELSE <<>>
             IN  bottomWalls \o topWalls
        ELSE <<>>

\* a sectors[...] lookup of the loop body of genWalls raises IndexError
LineRaises(ld, vs, sds, secs) ==
    /\ ~(ld.beg >= Len(vs) \/ ld.end >= Len(vs))
    /\ ld.front < Len(sds)
    /\ LET twoSided == ld.back < Len(sds) /\ ld.back # NoSide
           frontMissing == At(sds, ld.front).sector >= Len(secs)
           backMissing == At(sds, ld.back).sector >= Len(secs)
       IN  \/ At(sds, ld.front).middle # NoTexture /\ frontMissing
           \/ twoSided /\ (frontMissing \/ backMissing)

\* genWalls raises IndexError
genWallsRaises(vs, lds, sds, secs) ==
    \E i \in 1..Len(lds) : LineRaises(lds[i], vs, sds, secs)

\* the walls of one linedef, in the order the loop body appends them
WallsOfLine(ld, vs, sds, secs) ==
    IF ld.beg >= Len(vs) \/ ld.end >= Len(vs) THEN <<>>
    ELSE MiddleWalls(ld, vs, sds, secs) \o StepWalls(ld, vs, sds, secs)

\* every (distance, wall) the loop over linedefs i.. appends, in order
RECURSIVE WallEntries(_, _, _, _, _)
WallEntries(i, vs, lds, sds, secs) ==
    IF i > Len(lds) THEN <<>>
    ELSE LET ws == WallsOfLine(lds[i], vs, sds, secs)
             d == Distance20(At(vs, lds[i].beg), At(vs, lds[i].end))
         IN  [k \in 1..Len(ws) |-> [distance |-> d, wall |-> ws[k]]]
             \o WallEntries(i + 1, vs, lds, sds, secs)

\* the dictionary genWalls returns: distance -> list of walls
genWalls(vs, lds, sds, secs) ==
    LET entries == WallEntries(1, vs, lds, sds, secs)
        keys == {entries[k].distance : k \in 1..Len(entries)}
    IN  [d \in keys |->
            LET same(e) == e.distance = d
                bucket == SelectSeq(entries, same)
            IN  [k \in 1..Len(bucket) |-> bucket[k].wall]]

\* how many walls a dictionary of walls (or of things) holds
RECURSIVE CountEntries(_)
CountEntries(dict) ==
    IF DOMAIN dict = {} THEN 0
    ELSE LET d == CHOOSE k \in DOMAIN dict : TRUE
         IN  Len(dict[d])
             + CountEntries([k \in DOMAIN dict \ {d} |-> dict[k]])


(***************************************************************************)
(* The levels of the rasterizer runs: a square room of side S whose four   *)
(* sides are each absent, drawn clockwise (front side towards the room) or *)
(* drawn counter-clockwise, the top and right sides facing sector hi, the  *)
(* other two sector 0; and optionally a diagonal, either one two-sided     *)
(* linedef between sectors 0 and 1 or two linedefs with all four sides in  *)
(* sector 1, listed before or after the sides.                             *)
(***************************************************************************)
SquareVertexes(S) ==
    <<Vertex(0, 0), Vertex(S, 0), Vertex(S, S), Vertex(0, S)>>

SideLine(k, dir, sidedef) ==
    IF dir = "cw" THEN <<LineDef(k, (k + 1) % 4, sidedef, NoSide, 0, 0)>>
    ELSE IF dir = "ccw" THEN <<LineDef((k + 1) % 4, k, sidedef, NoSide, 0, 0)>>
    ELSE <<>>

DiagonalLines(d) ==
    IF d = "split" THEN <<LineDef(0, 2, 0, 1, 0, 0)>>
    ELSE IF d = "double"
    THEN <<LineDef(0, 2, 1, 1, 0, 0), LineDef(2, 0, 1, 1, 0, 0)>>
    ELSE <<>>

RoomLines(dirs, hi, d, diagFirst) ==
    LET sides == SideLine(0, dirs[0], hi) \o SideLine(1, dirs[1], hi)
                 \o SideLine(2, dirs[2], 0) \o SideLine(3, dirs[3], 0)
    IN  IF diagFirst THEN DiagonalLines(d) \o sides
        ELSE sides \o DiagonalLines(d)

RoomSidedefs == <<SideDef(0, 0, "-", "-", "WALL", 0),
                  SideDef(0, 0, "-", "-", "WALL", 1)>>

RoomSectors == <<Sector(0, 2, "FLOOR", "CEIL", 160),
                 Sector(0, 2, "FLOOR", "CEIL", 160)>>

(***************************************************************************)
(* pasteWall: the polygon of a wall, its pixels and the z-buffer test.     *)
(***************************************************************************)
\* "-32768 means it is empty, otherwise it contains Y coordinate"
NoDepth == -32768

\* int(num / den) for a denominator of either sign
TruncQ(num, den) == IF den < 0 THEN Trunc(-num, -den) ELSE Trunc(num, den)

\* getLinePixels: the pixels of a line, corners doubled so that the line
\* has no diagonal step
getLinePixels(beg, end) ==
    IF beg = end THEN <<beg>>
    ELSE LET x1 == beg[1]
             y1 == beg[2]
             dx == end[1] - x1
             dy == end[2] - y1
             alongX == Abs(dx) > Abs(dy)
             steps == IF alongX THEN Abs(dx) ELSE Abs(dy)
             s == IF alongX THEN Sgn(dx) ELSE Sgn(dy)
             P(k) == IF alongX
                     THEN <<x1 + s * k, TruncQ(y1 * dx + dy * (s * k), dx)>>
                     ELSE <<TruncQ(x1 * dy + dx * (s * k), dy), y1 + s * k>>
             Corner(k) ==
                 IF k > 0 /\ P(k)[1] # P(k - 1)[1] /\ P(k)[2] # P(k - 1)[2]
                 THEN IF alongX THEN << <<P(k - 1)[1], P(k)[2]>> >>
                      ELSE << <<P(k)[1], P(k - 1)[2]>> >>
                 ELSE <<>>
         IN  Concat([k \in 1..(steps + 1) |-> Corner(k - 1) \o <<P(k - 1)>>])

\* "Calculate coordinates of a polygone, this wall shoudl occupy"
WallCoords(wall, off) ==
    LET wallHeight == wall.ceiling - wall.floor
        hx == Trunc(wall.floor * CoefX10, 10)
        hy == Trunc(wall.floor * CoefY10, 10)
        x1 == wall.sx + off[1]
        y1 == wall.sy + off[2]
        x2 == wall.ex + off[1]
        y2 == wall.ey + off[2]
    IN  <<x1 - hx, y1 - hy, x2 - hx, y2 - hy,
          Trunc(10 * (x2 - hx) - wallHeight * CoefX10, 10),
          Trunc(10 * (y2 - hy) - wallHeight * CoefY10, 10),
          Trunc(10 * (x1 - hx) - wallHeight * CoefX10, 10),
          Trunc(10 * (y1 - hy) - wallHeight * CoefY10, 10)>>

\* wall.texture.upper(): the sidedef decoder has upper-cased the name
\* already (DecodeName), and upper() leaves an upper-case name as it is
TextureKey(texture) == texture

\* int(math.sqrt((sx - ex) ** 2 + ((sy - ey) / scaleY) ** 2)) for scaleY = 1.
\* Only "width <= 0" is read of it, and for 0 < scaleY <= 1 the width is 0
\* exactly when the two ends of the wall coincide
WallWidth(wall) ==
    LET q == (wall.sx - wall.ex) * (wall.sx - wall.ex)
             + (wall.sy - wall.ey) * (wall.sy - wall.ey)
    IN  CHOOSE w \in 0..q : w * w <= q /\ (w + 1) * (w + 1) > q

\* a mutation of getWallImage: the test of the dash is left out
getWallImageAnyName(wall, textures) ==
    /\ TextureKey(wall.texture) \in DOMAIN textures
    /\ wall.ceiling - wall.floor > 0
    /\ WallWidth(wall) > 0

\* getWallImage returns an image (TRUE) or False
getWallImage(wall, textures) ==
    /\ TextureKey(wall.texture) # NoTexture
    /\ TextureKey(wall.texture) \in DOMAIN textures
    /\ wall.ceiling - wall.floor > 0
    /\ WallWidth(wall) > 0

\* the textures dictionary getTextures builds: the image of every texture
\* the texture lumps define, under the name read from the lump; one of
\* them is named with the single dash
PasteTextures ==
    ("WALL" :> "solid") @@ ("GLASS" :> "soft") @@ ("GRATE" :> "grate")
        @@ (NoTexture :> "solid")

\* px[i, j][3]: the alpha channel of the resized wall image.  A texture of
\* the model is solid, a grate (every other pixel fully transparent) or
\* soft (every other pixel faint, as the resize leaves the pixels between
\* an opaque and a transparent one)
Alpha(image, i, j) ==
    CASE image = "solid" -> 255
      [] image = "grate" -> IF (i + j) % 2 = 0 THEN 255 ELSE 0
      [] image = "soft" -> IF (i + j) % 2 = 0 THEN 255 ELSE 40

\* a mutation of FacesAway: every wall faces away
FacesAwayAlways(coords) == TRUE

\* "Checks if the wall faces away (from isomeric view)"
FacesAway(coords) ==
    LET x1 == coords[1]
        y1 == coords[2]
        x2 == coords[3]
        y2 == coords[4]
    IN  \/ x2 <= x1 /\ y2 >= y1
        \/ CoefY10 # 0 /\ x2 < x1
            /\ IF y1 - y2 > 0
               THEN (x1 - x2) * CoefY10 > CoefX10 * (y1 - y2)
               ELSE (x1 - x2) * CoefY10 < CoefX10 * (y1 - y2)
        \/ CoefY10 # 0 /\ y2 > y1
            /\ (x2 - x1) * CoefY10 < CoefX10 * (y2 - y1)

\* y of the loop body: the world depth of column i of a wall whose floor
\* line has count pixels
PixelDepth(wall, i, count, off) ==
    TruncQ(i * (wall.ey - wall.sy) + (wall.sy + off[2]) * count, count)

\* the pixels the copying loop of pasteWall goes through, column by column:
\* where each one lands, its depth, the alpha of the wall image there and
\* the opacity it is drawn with; no pixel when pasteWall returns early
WallPixels(wall, textures, off) ==
    LET coords == WallCoords(wall, off)
        floorLine == getLinePixels(<<coords[1], coords[2]>>,
                                   <<coords[3], coords[4]>>)
        ceilingLine == getLinePixels(<<coords[7], coords[8]>>,
                                     <<coords[5], coords[6]>>)
        away == FacesAway(coords)
        mid == wall.position = "mid"
        isTransparent == IF mid THEN FALSE
                         ELSE IF wall.isBack THEN ~away ELSE away
        image == textures[TextureKey(wall.texture)]
        Column(i) ==
            LET line == getLinePixels(ceilingLine[i + 1], floorLine[i + 1])
            IN  [r \in 1..Len(line) |->
                    [pos |-> line[r],
                     y |-> PixelDepth(wall, i, Len(floorLine), off),
                     alpha |-> Alpha(image, i, r - 1),
                     opacity |-> IF isTransparent THEN 80
                                 ELSE Alpha(image, i, r - 1)]]
    IN  IF ~getWallImage(wall, textures) THEN <<>>
        ELSE IF mid /\ (away <=> wall.isBack) THEN <<>>
        ELSE [c \in 1..Min2(Len(floorLine), Len(ceilingLine)) |->
                Column(c - 1)]

\* a mutation of Nearer: the depth test always passes
NearerAlways(y, lastZ) == TRUE

\* "if y is bigger (closer to viewer): draw the pixel"
Nearer(y, lastZ) == y > lastZ

\* the tests of the copying loop a pixel passes before it is drawn: it is
\* within the image, nearer than what the z-buffer holds there, and not
\* fully transparent
PixelPasses(st, c, size) ==
    /\ c.pos \in Raster(size)
    /\ Nearer(c.y, st.zBuffer[c.pos])
    /\ c.alpha # 0

\* the pixel blended into the picture, and "Keep tracking latest value in
\* zBuffer" for an opacity of 80 or more
PastePixel(st, c, paint) ==
    [px2 |-> [st.px2 EXCEPT ![c.pos] = paint],
     zBuffer |-> IF c.opacity >= 80 THEN [st.zBuffer EXCEPT ![c.pos] = c.y]
                 ELSE st.zBuffer]

\* a loop at its k-th round, with the picture and the z-buffer as the
\* rounds before it left them
Round(st, k) == [st |-> st, k |-> k]

RECURSIVE PasteColumn(_, _, _, _)
\* the inner loop of pasteWall from pixel loop.k of a column on
PasteColumn(loop, column, paint, size) ==
    IF loop.k > Len(column) THEN loop.st
    ELSE IF PixelPasses(loop.st, column[loop.k], size)
    THEN PasteColumn(Round(PastePixel(loop.st, column[loop.k], paint),
                           loop.k + 1), column, paint, size)
    ELSE PasteColumn(Round(loop.st, loop.k + 1), column, paint, size)

RECURSIVE PasteColumns(_, _, _, _)
\* the outer loop of pasteWall from column loop.k on
PasteColumns(loop, columns, paint, size) ==
    IF loop.k > Len(columns) THEN loop.st
    ELSE PasteColumns(Round(PasteColumn(Round(loop.st, 1), columns[loop.k],
                                        paint, size), loop.k + 1),
                      columns, paint, size)

\* pasteWall on the pair (px2, zBuffer); paint says what the wall leaves
\* in a pixel it colours
pasteWall(st, wall, textures, off, paint, size) ==
    PasteColumns(Round(st, 1), WallPixels(wall, textures, off), paint, size)

(***************************************************************************)
(* parseThings.  A lump or sprite name is the sequence of its characters;  *)
(* the statistics parseThings counts are left out.                         *)
(***************************************************************************)
\* the character \x00
Nul == "\\0"

\* "If the name is shorter than 8 bytes, pad it with \x00"
addTrailingZeros(name) ==
    IF Len(name) < 8 THEN name \o [k \in 1..(8 - Len(name)) |-> Nul] ELSE name

\* "sprite in lumpName": part occurs somewhere in name
IsIn(part, name) ==
    \E i \in 0..(Len(name) - Len(part)) : SubSeq(name, i + 1, i + Len(part)) = part

\* name[a:b]
Slice(name, a, b) == SubSeq(name, a + 1, Min2(b, Len(name)))

RECURSIVE BitAnd(_, _)
\* a & b for a, b >= 0
BitAnd(a, b) ==
    IF a = 0 \/ b = 0 THEN 0
    ELSE (a % 2) * (b % 2) + 2 * BitAnd(a \div 2, b \div 2)

RECURSIVE FindFrom(_, _, _, _, _)
\* the loop of findSprite over allLumps, in the order the set yields them
FindFrom(sprite, angle, lumps, k, found) ==
    IF k > Len(lumps) THEN found
    ELSE LET lumpName == lumps[k]
             better ==
                 /\ IsIn(sprite, lumpName) /\ IsIn(angle, lumpName)
                 /\ \/ found = <<>>
                    \/ /\ Slice(lumpName, 6, 8) = <<Nul, Nul>>
                       /\ Slice(found, 6, 8) # <<Nul, Nul>>
         IN  FindFrom(sprite, angle, lumps, k + 1,
                      IF better THEN lumpName ELSE found)

findSprite(sprite, angle, lumps) == FindFrom(sprite, angle, lumps, 1, <<>>)

\* the entries of spriteMap the objects of the model use
SpriteTable ==
    (1 :> <<"P", "L", "A", "Y">>) @@ (3004 :> <<"P", "O", "S", "S">>)
    @@ (84 :> <<"S", "S", "W", "V">>) @@ (3001 :> <<"T", "R", "O", "O">>)
    @@ (2035 :> <<"B", "A", "R", "1">>) @@ (15 :> <<"P", "L", "A", "Y", "N">>)

\* "If Deathmathc is ON: Remove Player Start, Add Deathmatch Start
\* positions as Players"
spriteMap(deathmatch) ==
    IF deathmatch
    THEN [t \in (DOMAIN SpriteTable \ {1}) \cup {11} |->
            IF t = 11 THEN <<"P", "L", "A", "Y">> ELSE SpriteTable[t]]
    ELSE SpriteTable

spriteFrames == <<"A", "B", "C", "D">>

\* a mutation of Ignored: one bit of the difficulty in common is enough
IgnoredNoBit(thing, opts) ==
    \/ BitAnd(thing.options, 16) = 16 /\ ~opts.deathmatch
    \/ opts.difficulty # 0 /\ BitAnd(thing.options, opts.difficulty) = 0

\* "ignore DM things, only show things for difficulty level"
Ignored(thing, opts) ==
    \/ BitAnd(thing.options, 16) = 16 /\ ~opts.deathmatch
    \/ BitAnd(thing.options, opts.difficulty) # opts.difficulty

\* (14 - thing.angle//45) % 8 + 1
SpriteAngle(thing) == ((14 - (thing.angle \div 45)) % 8) + 1

\* a mutation of SpriteOf: the frame counter is left as it was
SpriteOfSameFrame(thing, lumps, opts, count) ==
    LET thingName == spriteMap(opts.deathmatch)[thing.type]
        angle == Str(SpriteAngle(thing))
        still == findSprite(thingName, IF Len(thingName) = 4
                                       THEN <<"A", "0">> ELSE <<"0">>, lumps)
    IN  IF still # <<>> THEN [sprite |-> still, count |-> count]
        ELSE IF Len(thingName) = 4
        THEN [sprite |-> findSprite(thingName,
                            <<spriteFrames[(count % 4) + 1]>> \o angle, lumps),
              count |-> count]
        ELSE [sprite |-> findSprite(thingName, angle, lumps), count |-> count]

\* the sprite of one object and the frame counter after it
SpriteOf(thing, lumps, opts, count) ==
    LET thingName == spriteMap(opts.deathmatch)[thing.type]
        angle == Str(SpriteAngle(thing))
        still == findSprite(thingName, IF Len(thingName) = 4
                                       THEN <<"A", "0">> ELSE <<"0">>, lumps)
    IN  IF still # <<>> THEN [sprite |-> still, count |-> count]
        ELSE IF Len(thingName) = 4
        THEN [sprite |-> findSprite(thingName,
                            <<spriteFrames[(count % 4) + 1]>> \o angle, lumps),
              count |-> count + 1]
        ELSE [sprite |-> findSprite(thingName, angle, lumps), count |-> count]

\* thing.x * hCoefX + thing.y * hCoefY, times 20 as Distance20
ThingDistance20(thing) == 2 * (thing.x * CoefX10 + thing.y * CoefY10)

\* the object as parseThings leaves it: the sprite name and the mirrored
\* flag set; id tells which object of the list it is
Placed(thing, id, sprite) ==
    [x |-> thing.x, y |-> thing.y, angle |-> thing.angle, type |-> thing.type,
     options |-> thing.options, sprite |-> sprite,
     mirrored |-> Len(sprite) = 8 /\ Str(SpriteAngle(thing)) = <<sprite[8]>>,
     id |-> id]

RECURSIVE ThingEntries(_, _, _, _, _, _)
\* the loop of parseThings from object k on: what it appends, in order
ThingEntries(list, ids, k, lumps, opts, count) ==
    IF k > Len(list) THEN <<>>
    ELSE LET thing == list[k]
         IN  IF Ignored(thing, opts)
                \/ thing.type \notin DOMAIN spriteMap(opts.deathmatch)
             THEN ThingEntries(list, ids, k + 1, lumps, opts, count)
             ELSE LET r == SpriteOf(thing, lumps, opts, count)
                  IN  <<[distance |-> ThingDistance20(thing),
                         thing |-> Placed(thing, ids[k], r.sprite)]>>
                      \o ThingEntries(list, ids, k + 1, lumps, opts, r.count)

\* parseThings: the dictionary thingsList and the set of sprite names
parseThings(list, ids, lumps, opts) ==
    LET entries == ThingEntries(list, ids, 1, lumps, opts, 0)
        keys == {entries[k].distance : k \in 1..Len(entries)}
    IN  [thingsList |->
            [d \in keys |->
                LET same(e) == e.distance = d
                    bucket == SelectSeq(entries, same)
                IN  [k \in 1..Len(bucket) |-> bucket[k].thing]],
         sprites |-> {entries[k].thing.sprite : k \in 1..Len(entries)}]

(***************************************************************************)
(* drawMap after the fill: the floors, then the walls and the objects.     *)
(* A pixel of the final picture holds what painted it last.                *)
(***************************************************************************)
\* Image.new("RGB", (imSizeX, imSizeY), (0, 0, 0))
Black == <<"black", 0, 0>>

\* the flats dictionary: the names of the flats that exist
Flats == {"FLOOR", "CEIL"}

\* sectors[sector] for an index numpy hands back, -1 included
SectorAt(secs, index) ==
    IF index < 0 THEN secs[Len(secs) + index + 1] ELSE secs[index + 1]

\* where the floor pixel (i, j) of a sector is moved to; (i, j) itself as
\* long as there is no sector
FloorTarget(i, j, sd, secs) ==
    LET sector == sd[<<i, j>>]
    IN  IF sector = -1 THEN <<i, j>>
        ELSE <<i - Trunc(SectorAt(secs, sector).floorHeight * CoefX10, 10),
               j - Trunc(SectorAt(secs, sector).floorHeight * CoefY10, 10)>>

\* the tests of the loops that draw the floors, for the pixel (i, j)
FloorPasses(st, i, j, sd, secs, size) ==
    /\ sd[<<i, j>>] # -1
    /\ SectorAt(secs, sd[<<i, j>>]).HOMpassed
    /\ FloorTarget(i, j, sd, secs) \in Raster(size)
    /\ j > st.zBuffer[FloorTarget(i, j, sd, secs)]
    /\ SectorAt(secs, sd[<<i, j>>]).floorTexture \in Flats

\* "draw, update the zBuffer"
FloorPixel(st, i, j, sd, secs) ==
    [px2 |-> [st.px2 EXCEPT ![FloorTarget(i, j, sd, secs)]
                                = <<"floor", sd[<<i, j>>], 0>>],
     zBuffer |-> [st.zBuffer EXCEPT ![FloorTarget(i, j, sd, secs)] = j]]

RECURSIVE FloorColumn(_, _, _, _, _)
\* "for j in range(imSizeY)" from j = loop.k on
FloorColumn(loop, i, sd, secs, size) ==
    IF loop.k >= size[2] THEN loop.st
    ELSE IF FloorPasses(loop.st, i, loop.k, sd, secs, size)
    THEN FloorColumn(Round(FloorPixel(loop.st, i, loop.k, sd, secs),
                           loop.k + 1), i, sd, secs, size)
    ELSE FloorColumn(Round(loop.st, loop.k + 1), i, sd, secs, size)

RECURSIVE FloorsFrom(_, _, _, _)
\* "for i in range(imSizeX)" from i = loop.k on
FloorsFrom(loop, sd, secs, size) ==
    IF loop.k >= size[1] THEN loop.st
    ELSE FloorsFrom(Round(FloorColumn(Round(loop.st, 0), loop.k, sd, secs,
                                      size), loop.k + 1), sd, secs, size)

\* the empty z-buffer and the black picture, and the floors drawn on them
drawFloors(sd, secs, size) ==
    FloorsFrom(Round([px2 |-> [p \in Raster(size) |-> Black],
                      zBuffer |-> [p \in Raster(size) |-> NoDepth]], 0),
               sd, secs, size)

\* the pictures of the archive that decode: width, height and the pixels
\* that are fully transparent
SpritePictures ==
    (addTrailingZeros(<<"P", "O", "S", "S", "A", "1">>)
        :> [w |-> 1, h |-> 2, clear |-> {}])
    @@ (addTrailingZeros(<<"P", "O", "S", "S", "B", "1">>)
        :> [w |-> 3, h |-> 2, clear |-> {<<0, 0>>}])
    @@ (addTrailingZeros(<<"T", "R", "O", "O", "A", "2", "A", "8">>)
        :> [w |-> 2, h |-> 1, clear |-> {}])
    @@ (addTrailingZeros(<<"B", "A", "R", "1", "A", "0">>)
        :> [w |-> 1, h |-> 1, clear |-> {}])

\* getPictures(iData, spriteList, pallete): the pictures of the names that
\* have a lump and decode
getPictures(names, lumps) ==
    [name \in {nm \in names : /\ addTrailingZeros(nm) \in Range(lumps)
                              /\ nm \in DOMAIN SpritePictures}
        |-> SpritePictures[name]]

\* spx[i, j][3] != 0, after the flip of a mirrored sprite
Solid(image, mirrored, i, j) ==
    <<IF mirrored THEN image.w - 1 - i ELSE i, j>> \notin image.clear

\* a mutation of pasteThing: the z-buffer is not looked at
pasteThingAnyDepth(st, x, y, thing, pictures, off, size) ==
    IF thing.sprite \notin DOMAIN pictures THEN st
    ELSE LET image == pictures[thing.sprite]
             physY == thing.y + off[2]
             Draws(p) ==
                 \E i \in 0..(image.w - 1), j \in 0..(image.h - 1) :
                    /\ Solid(image, thing.mirrored, i, j)
                    /\ p = <<x - (image.w \div 2) + i, y - image.h + j>>
         IN  [px2 |-> [p \in Raster(size) |->
                        IF Draws(p) THEN <<"thing", thing.id, 0>>
                        ELSE st.px2[p]],
              zBuffer |-> [p \in Raster(size) |->
                            IF Draws(p) THEN physY ELSE st.zBuffer[p]]]

\* pasteThing on the pair (px2, zBuffer).  The pixels of a sprite land on
\* different positions, so the order of its two loops does not matter
pasteThing(st, x, y, thing, pictures, off, size) ==
    IF thing.sprite \notin DOMAIN pictures THEN st
    ELSE LET image == pictures[thing.sprite]
             physY == thing.y + off[2]
             Draws(p) ==
                 /\ \E i \in 0..(image.w - 1), j \in 0..(image.h - 1) :
                        /\ Solid(image, thing.mirrored, i, j)
                        /\ p = <<x - (image.w \div 2) + i, y - image.h + j>>
                 /\ physY > st.zBuffer[p]
         IN  [px2 |-> [p \in Raster(size) |->
                        IF Draws(p) THEN <<"thing", thing.id, 0>>
                        ELSE st.px2[p]],
              zBuffer |-> [p \in Raster(size) |->
                            IF Draws(p) THEN physY ELSE st.zBuffer[p]]]

\* a mutation of SortedKeys: farthest last becomes farthest first
RECURSIVE SortedKeysDown(_)
SortedKeysDown(S) ==
    IF S = {} THEN <<>>
    ELSE <<SetMax(S)>> \o SortedKeysDown(S \ {SetMax(S)})

\* sorted(list(set(...)))
RECURSIVE SortedKeys(_)
SortedKeys(S) ==
    IF S = {} THEN <<>>
    ELSE <<SetMin(S)>> \o SortedKeys(S \ {SetMin(S)})

\* "Combine keys (distance) from Walls and Thing lists"
combinesList(wallsDict, thingsDict) ==
    SortedKeys(DOMAIN wallsDict \cup DOMAIN thingsDict)

\* everything the loop over walls and objects is given
Job(wallsDict, thingsDict, pictures, sd, secs, off, size) ==
    [walls |-> wallsDict, thingsList |-> thingsDict, sprites |-> pictures,
     sectorData |-> sd, sectors |-> secs, offset |-> off, size |-> size,
     keys |-> combinesList(wallsDict, thingsDict)]

RECURSIVE Advance(_, _)
\* the position of the next wall or object the three nested loops reach
\* from pos on, pos included; n beyond the keys when there is none
Advance(pos, job) ==
    IF pos.n > Len(job.keys) THEN pos
    ELSE LET d == job.keys[pos.n]
         IN  IF pos.phase = "walls"
             THEN IF d \in DOMAIN job.walls /\ pos.k <= Len(job.walls[d])
                  THEN pos
                  ELSE Advance([n |-> pos.n, phase |-> "things", k |-> 1], job)
             ELSE IF d \in DOMAIN job.thingsList
                     /\ pos.k <= Len(job.thingsList[d])
                  THEN pos
                  ELSE Advance([n |-> pos.n + 1, phase |-> "walls", k |-> 1],
                               job)

\* what drawMap did with one wall or object
Visit(what, key, item, called, at, sector, wrote) ==
    [what |-> what, key |-> key, item |-> item, called |-> called, at |-> at,
     sector |-> sector, wrote |-> wrote]

\* the cells of the z-buffer a call wrote, with the depth it stored
Wrote(before, after, size) ==
    {<<p, after.zBuffer[p]>> : p \in {q \in Raster(size) :
        after.zBuffer[q] # before.zBuffer[q] \/ after.px2[q] # before.px2[q]}}

\* the body of "for wall in walls[distance]"
WallVisit(st, pos, job) ==
    LET d == job.keys[pos.n]
        wall == job.walls[d][pos.k]
        after == pasteWall(st, wall, PasteTextures, job.offset,
                           <<"wall", d, pos.k>>, job.size)
    IN  [st |-> after,
         entry |-> Visit("wall", d, wall, TRUE, <<>>, -1,
                         Wrote(st, after, job.size))]

\* the body of "for thing in thingsList[distance]"
ThingVisit(st, pos, job) ==
    LET d == job.keys[pos.n]
        thing == job.thingsList[d][pos.k]
        picX == thing.x + job.offset[1]
        picY == thing.y + job.offset[2]
        sector == job.sectorData[<<picX, picY>>]
        atHeight == SectorAt(job.sectors, sector).floorHeight
        x == picX - Trunc(atHeight * CoefX10, 10)
        y == picY - Trunc(atHeight * CoefY10, 10)
        after == pasteThing(st, x, y, thing, job.sprites, job.offset, job.size)
    IN  IF <<picX, picY>> \notin Raster(job.size)
        THEN [st |-> st, entry |-> Visit("thing", d, thing, FALSE, <<>>, -1, {})]
        ELSE [st |-> after,
              entry |-> Visit("thing", d, thing, TRUE, <<x, y>>, sector,
                              Wrote(st, after, job.size))]

RECURSIVE RenderFrom(_, _)
\* the loop over walls and objects from run.pos on: the picture, the
\* z-buffer and the visits in order
RenderFrom(run, job) ==
    IF run.pos.n > Len(job.keys) THEN run
    ELSE LET v == IF run.pos.phase = "walls"
                  THEN WallVisit(run.st, run.pos, job)
                  ELSE ThingVisit(run.st, run.pos, job)
         IN  RenderFrom([st |-> v.st, log |-> Append(run.log, v.entry),
                         pos |-> Advance([run.pos EXCEPT !.k = @ + 1], job)],
                        job)

(***************************************************************************)
(* The rasterizer of drawMap as a state machine: checkHOM, the blueprint,  *)
(* the fill loop over (linedef, side) with floodFill stepped one loop      *)
(* iteration at a time, and fillSeams.                                     *)
(***************************************************************************)
InitFill ==
    /\ IdleBatch /\ IdleDecode /\ IdlePaint /\ IdleThings
    /\ IdleArchive
    /\ \E S \in 1..MaxSide, dirs \in [0..3 -> {"none", "cw", "ccw"}],
          hi \in {0, 1}, d \in {"none", "split", "double"},
          diagFirst \in BOOLEAN :
            /\ d = "none" => ~diagFirst
            /\ vertexes = SquareVertexes(S)
            /\ linedefs = RoomLines(dirs, hi, d, diagFirst)
    /\ sidedefs = RoomSidedefs
    /\ sectors = RoomSectors
    /\ pc = "checkHOM"
    /\ walls = <<>>
    /\ imSize = <<0, 0>> /\ offset = <<0, 0>>
    /\ px = NoImage /\ sectorData = NoImage
    /\ n = 0 /\ side = 0
    /\ fpc = "idle" /\ fillSector = -1 /\ startPix = <<0, 0>> /\ toGo = <<>>
    /\ snapPx = NoImage /\ snapSd = NoImage /\ written = {}
    /\ thisPix = <<0, 0>> /\ outcome = "none" /\ started = {}

CheckHOM ==
    /\ UNCHANGED notFill
    /\ pc = "checkHOM"
    /\ IF checkHOMRaises(linedefs, sidedefs, sectors)
       THEN pc' = "raised" /\ UNCHANGED sectors
       ELSE /\ sectors' = checkHOM(vertexes, linedefs, sidedefs, sectors)
            /\ pc' = "genWalls"
    /\ UNCHANGED <<levelVars, walls, imSize, offset, px, sectorData, n, side,
                   fillVars, started>>

GenWalls ==
    /\ UNCHANGED notFill
    /\ pc = "genWalls"
    /\ IF genWallsRaises(vertexes, linedefs, sidedefs, sectors)
       THEN pc' = "raised" /\ UNCHANGED walls
       ELSE /\ walls' = genWalls(vertexes, linedefs, sidedefs, sectors)
            /\ pc' = "parseThings"
    /\ UNCHANGED <<levelVars, sectors, imSize, offset, px, sectorData, n,
                   side, fillVars, started>>

\* thingsList, spriteList = parseThings(things, allLumps, options, stats)
\* sprites = getPictures(iData, spriteList, pallete)
ParseThings ==
    /\ pc = "parseThings"
    /\ LET r == parseThings(things, [k \in 1..Len(things) |-> k], allLumps,
                            options)
       IN  /\ thingsList' = r.thingsList
           /\ sprites' = getPictures(r.sprites, allLumps)
    /\ pc' = "blueprint"
    /\ UNCHANGED <<levelVars, sectors, walls, imSize, offset, px, sectorData, n,
                   side, fillVars, started>>
    /\ UNCHANGED <<batchVars, decodeVars, paintVars, thingVars, drawPos,
                   drawLog, archiveVars>>

\* Image.new raises ValueError for a negative size
DrawBlueprint ==
    /\ UNCHANGED notFill
    /\ pc = "blueprint"
    /\ LET g == getImageSizeOffset(vertexes, linedefs, sidedefs, sectors)
       IN  IF getImageSizeOffsetRaises(linedefs, sidedefs, sectors)
              \/ g.size[1] < 0 \/ g.size[2] < 0
           THEN /\ pc' = "raised"
                /\ UNCHANGED <<imSize, offset, px, sectorData>>
           ELSE /\ pc' = "fill"
                /\ imSize' = g.size
                /\ offset' = g.offset
                /\ px' = Blueprint(vertexes, linedefs, g.offset, g.size)
                /\ sectorData' = [p \in Raster(g.size) |-> -1]
    /\ n' = 0 /\ side' = 0
    /\ UNCHANGED <<levelVars, sectors, walls, fillVars, started>>

\* the sidedef the fill loop looks at
CurrentSide == IF side = 0 THEN At(linedefs, n).front ELSE At(linedefs, n).back

\* the flood point of the current linedef side, before the offset is added
CurrentPoint == findFloodPoint(At(linedefs, n), vertexes, side = 0)

\* the conditions under which the loop body calls floodFill
CallsFloodFill ==
    /\ SideResolves(CurrentSide, sidedefs)
    /\ At(sectors, At(sidedefs, CurrentSide).sector).HOMpassed
    /\ CurrentPoint[1] # NoPoint

\* the next (n, side) of the two nested for loops
NextSide ==
    /\ n' = IF side = 0 THEN n ELSE n + 1
    /\ side' = 1 - side

SkipSide ==
    /\ UNCHANGED notFill
    /\ pc = "fill" /\ fpc = "idle" /\ n < Len(linedefs)
    /\ ~CallsFloodFill
    /\ NextSide
    /\ UNCHANGED <<levelVars, sectors, walls, pc, imSize, offset, px, sectorData,
                   fillVars, started>>

\* floodFill(sector, (x + offsetX, y + offsetY)) up to its while loop
StartFill ==
    /\ UNCHANGED notFill
    /\ pc = "fill" /\ fpc = "idle" /\ n < Len(linedefs)
    /\ CallsFloodFill
    /\ LET seed == <<CurrentPoint[1] + offset[1], CurrentPoint[2] + offset[2]>>
           sector == At(sidedefs, CurrentSide).sector
       IN  /\ fillSector' = sector
           /\ startPix' = seed
           /\ started' = started \cup {sector}
           /\ IF ~InImage(seed, imSize)
              THEN /\ pc' = "raised"
                   /\ UNCHANGED <<fpc, toGo>>
              ELSE /\ fpc' = "forward"
                   /\ toGo' = InitialToGo(px, seed, imSize, FALSE)
                   /\ pc' = pc
    /\ snapPx' = px /\ snapSd' = sectorData
    /\ written' = {} /\ outcome' = "none"
    /\ UNCHANGED <<levelVars, sectors, walls, imSize, offset, px, sectorData, n,
                   side, thisPix>>

\* one iteration of floodFill's while loop, forward or in reverse
FillStep ==
    /\ UNCHANGED notFill
    /\ pc = "fill" /\ fpc \in {"forward", "erase"} /\ toGo # <<>>
    /\ LET r == FillIteration(px, sectorData, toGo, fillSector,
                              fpc = "erase", imSize)
       IN  /\ px' = r.px
           /\ sectorData' = r.sectorData
           /\ thisPix' = r.thisPix
           /\ written' = written \cup {r.thisPix}
           /\ IF r.ret = "run"
              THEN /\ toGo' = r.toGo
                   /\ UNCHANGED <<pc, fpc, outcome, n, side>>
              ELSE IF r.ret = "IndexError"
              THEN /\ pc' = "raised"
                   /\ toGo' = r.toGo
                   /\ UNCHANGED <<fpc, outcome, n, side>>
              ELSE IF fpc = "forward"
              THEN /\ fpc' = "overspilt"
                   /\ toGo' = r.toGo
                   /\ UNCHANGED <<pc, outcome, n, side>>
              ELSE /\ fpc' = "idle"
                   /\ outcome' = "rolledBack"
                   /\ toGo' = r.toGo
                   /\ NextSide
                   /\ pc' = pc
    /\ UNCHANGED <<levelVars, sectors, walls, imSize, offset, fillSector, startPix,
                   snapPx, snapSd, started>>

\* the while loop ends with toGo empty: floodFill returns True
FillReturnsTrue ==
    /\ UNCHANGED notFill
    /\ pc = "fill" /\ fpc \in {"forward", "erase"} /\ toGo = <<>>
    /\ fpc' = "idle"
    /\ outcome' = IF fpc = "forward" THEN "filled" ELSE "rolledBack"
    /\ NextSide
    /\ UNCHANGED <<levelVars, sectors, walls, pc, imSize, offset, px, sectorData,
                   fillSector, startPix, toGo, snapPx, snapSd, written,
                   thisPix, started>>

\* "if not floodFill(...)": floodFill(sector, ..., erase=True) up to its loop
RollBack ==
    /\ UNCHANGED notFill
    /\ pc = "fill" /\ fpc = "overspilt"
    /\ fpc' = "erase"
    /\ toGo' = InitialToGo(px, startPix, imSize, TRUE)
    /\ written' = {}
    /\ UNCHANGED <<levelVars, sectors, walls, pc, imSize, offset, px,
                   sectorData, n, side, fillSector, startPix, snapPx, snapSd,
                   thisPix, outcome, started>>

FillSeams ==
    /\ UNCHANGED notFill
    /\ pc = "fill" /\ fpc = "idle" /\ n = Len(linedefs)
    /\ LET r == fillSeams(px, sectorData, imSize)
       IN  /\ px' = r.px
           /\ sectorData' = r.sectorData
           /\ pc' = IF r.ret = "IndexError" THEN "raised" ELSE "seamed"
    /\ UNCHANGED <<levelVars, sectors, walls, imSize, offset, n, side, fillVars,
                   started>>

NextFill ==
    \/ CheckHOM \/ GenWalls \/ ParseThings \/ DrawBlueprint \/ SkipSide
    \/ StartFill \/ FillStep \/ FillReturnsTrue \/ RollBack \/ FillSeams

SpecFill == InitFill /\ [][NextFill]_vars

(***************************************************************************)
(* Properties of the rasterizer (checked under SpecFill).                  *)
(***************************************************************************)
\* the fill loop is between two floodFill attempts
BetweenFills == pc = "fill" /\ fpc = "idle"

\* a pixel with a neighbour outside the raster
OnEdge(p, size) ==
    \/ p[1] = 0 \/ p[1] = size[1] - 1 \/ p[2] = 0 \/ p[2] = size[2] - 1

\* C1: when a forward flood fill has returned False (it reached the border
\* of the raster) and the reverse fill from the same seed has ended, the
\* blueprint and the sector index buffer hold, pixel for pixel, the values
\* they had before the forward fill began.
C1_RollBackRestores ==
    (BetweenFills /\ outcome = "rolledBack")
        => (px = snapPx /\ sectorData = snapSd)

\* a rolled-back fill whose reverse pass went over at least three pixels
C1_Witness ==
    BetweenFills /\ outcome = "rolledBack" /\ Cardinality(written) >= 3

\* C8: floodFill, forward or reverse, started from a seed inside the
\* raster, pops and writes only pixels of [0,width) x [0,height), never
\* queues a pixel outside it and never raises; while it runs no pixel it
\* has visited lies on the edge of the raster, and when it returns False
\* the pixel it visited last does.
C8_FillStaysInside ==
    startPix \in Raster(imSize) =>
        /\ pc = "fill" => /\ written \subseteq Raster(imSize)
                          /\ Range(toGo) \subseteq Raster(imSize)
        /\ ~(pc = "raised" /\ fpc \in {"forward", "erase"})
        /\ (pc = "fill" /\ fpc \in {"forward", "erase"})
               => \A p \in written : ~OnEdge(p, imSize)
        /\ (pc = "fill" /\ fpc = "overspilt") => OnEdge(thisPix, imSize)

\* a forward fill that returned False after visiting at least three pixels
\* with pixels still queued
C8_Witness ==
    /\ pc = "fill" /\ fpc = "overspilt" /\ startPix \in Raster(imSize)
    /\ Cardinality(written) >= 3 /\ toGo # <<>>

\* the points of the vertexes that bound sector s: the ends of the
\* linedefs with a resolvable side facing it
BoundingPoints(s) ==
    UNION { IF \E sd \in {linedefs[i].front, linedefs[i].back} :
                   SideResolves(sd, sidedefs) /\ At(sidedefs, sd).sector = s
            THEN {<<At(vertexes, v).x, At(vertexes, v).y>> :
                     v \in {w \in {linedefs[i].beg, linedefs[i].end} :
                               w < Len(vertexes)}}
            ELSE {}
          : i \in 1..Len(linedefs) }

\* fewer than 3 distinct bounding vertexes, or a bounding box of extent
\* less than 2 in either axis
Degenerate(s) ==
    LET pts == BoundingPoints(s)
    IN  \/ Cardinality(pts) < 3
        \/ SetMax({q[1] : q \in pts}) - SetMin({q[1] : q \in pts}) < 2
        \/ SetMax({q[2] : q \in pts}) - SetMin({q[2] : q \in pts}) < 2

\* C4: a sector with fewer than 3 distinct bounding vertexes, or whose
\* bounding box extends less than 2 units in either axis, is marked invalid
\* by checkHOM, no flood fill is ever started for it and no cell of the
\* index buffer ever holds its index.
C4_DegenerateExcluded ==
    pc # "checkHOM" =>
        \A s \in 0..(Len(sectors) - 1) :
            Degenerate(s) =>
                /\ ~At(sectors, s).HOMpassed
                /\ s \notin started
                /\ \A p \in DOMAIN sectorData : sectorData[p] # s

\* the square room of side S closed by four one-sided linedefs of sector 0
\* running in the directions dirs
RoomOf(S, dirs) ==
    /\ vertexes = SquareVertexes(S)
    /\ linedefs = RoomLines(dirs, 0, "none", FALSE)

Clockwise == [k \in 0..3 |-> "cw"]

\* the fill loop of drawMap is over
FillsDone ==
    \/ pc = "seamed"
    \/ BetweenFills /\ n = Len(linedefs)

\* the raster pixels strictly inside the square room
InsideRoom ==
    {p \in Raster(imSize) :
        /\ p[1] - offset[1] > 0 /\ p[1] - offset[1] < At(vertexes, 2).x
        /\ p[2] - offset[2] > 0 /\ p[2] - offset[2] < At(vertexes, 2).y}

\* C5 as stated: for the unit square joined by four one-sided linedefs
\* around one sector, genWalls makes exactly 4 walls and the flood fill
\* gives the sector at least one pixel.
C5_UnitSquareFilled ==
    \A dirs \in [0..3 -> {"cw", "ccw"}] :
        (RoomOf(1, dirs) /\ FillsDone)
            => /\ CountEntries(walls) = 4
               /\ \E p \in DOMAIN sectorData : sectorData[p] = 0

\* C5 amended: for a square of side at least 3 whose four one-sided
\* linedefs have their front side towards the room, genWalls makes exactly
\* 4 walls and the flood fill gives every pixel strictly inside the square
\* to the sector.
C5_RoomFilled ==
    (At(vertexes, 1).x >= 3 /\ RoomOf(At(vertexes, 1).x, Clockwise)
     /\ FillsDone)
        => /\ CountEntries(walls) = 4
           /\ InsideRoom # {}
           /\ \A p \in InsideRoom : sectorData[p] = 0

\* the fills of a closed clockwise room of side at least 3 are over
C5_Witness ==
    /\ At(vertexes, 1).x >= 3 /\ RoomOf(At(vertexes, 1).x, Clockwise)
    /\ FillsDone
    /\ Cardinality({p \in DOMAIN sectorData : sectorData[p] = 0}) >= 4

(***************************************************************************)
(* wad2pic: the batch loop.  A map name is the sequence of its characters. *)
(* Which levels make generateMapPic raise is an input of the run.          *)
(***************************************************************************)
\* str.upper on the letters the map names of the model use
UpperChar(c) ==
    CASE c = "a" -> "A" [] c = "l" -> "L" [] c = "e" -> "E" [] c = "m" -> "M"
      [] OTHER -> c

Upper(name) == [k \in 1..Len(name) |-> UpperChar(name[k])]

\* the value None of the mapName argument
NoMapName == <<"None">>

RECURSIVE EpisodeNames(_, _)
\* ["E" + str(i) + "M" + str(j) for i in range(1, 5) for j in range(1, 10)]
\* from (i, j) on
EpisodeNames(i, j) ==
    IF i > Episodes THEN <<>>
    ELSE IF j > EpisodeMaps THEN EpisodeNames(i + 1, 1)
    ELSE <<(<<"E">> \o Str(i) \o <<"M">> \o Str(j))>> \o EpisodeNames(i, j + 1)

\* ["MAP" + str(i).zfill(2) for i in range(1, 33)]
Doom2Names == [i \in 1..Doom2Maps |-> <<"M", "A", "P">> \o Zfill2(i)]

\* "List of all possible map names"
MapNameList(mapName) ==
    IF mapName = NoMapName \/ Upper(mapName) = <<"A", "L", "L">>
    THEN EpisodeNames(1, 1) \o Doom2Names
    ELSE <<mapName>>

\* a mutation of Caught: the exception is never caught
CaughtNever(dbg) == FALSE

\* genMapWithException: with debug on generateMapPic is called bare, with
\* debug off inside try ... except:
Caught(dbg) == ~dbg

\* the mapName arguments of the modelled runs
MapNameArgs ==
    {NoMapName, <<"A", "L", "L">>, <<"a", "l", "l">>, <<"A", "l", "l">>}
        \cup Range(EpisodeNames(1, 1)) \cup Range(Doom2Names)

InitBatch ==
    /\ IdleRaster /\ IdleDecode /\ IdlePaint /\ IdleThings
    /\ IdleArchive
    /\ debug \in BOOLEAN
    /\ \E mapName \in MapNameArgs : listOfMapNames = MapNameList(mapName)
    /\ failing \in SUBSET Range(listOfMapNames)
    /\ mapIndex = 0
    /\ bpc = "loop"
    /\ attempted = <<>>

\* one pass of "for mapName in listOfMapNames": genMapWithException
GenMapWithException ==
    /\ bpc = "loop" /\ mapIndex < Len(listOfMapNames)
    /\ LET mapName == At(listOfMapNames, mapIndex)
       IN  /\ attempted' = Append(attempted, mapName)
           /\ IF mapName \in failing /\ ~Caught(debug)
              THEN bpc' = "propagated" /\ mapIndex' = mapIndex
              ELSE bpc' = bpc /\ mapIndex' = mapIndex + 1
    /\ UNCHANGED <<debug, listOfMapNames, failing>>
    /\ UNCHANGED notBatch

\* the for loop is over: wad2pic returns
Wad2picReturns ==
    /\ bpc = "loop" /\ mapIndex = Len(listOfMapNames)
    /\ bpc' = "returned"
    /\ UNCHANGED <<debug, listOfMapNames, failing, mapIndex, attempted>>
    /\ UNCHANGED notBatch

NextBatch == GenMapWithException \/ Wad2picReturns

SpecBatch == InitBatch /\ [][NextBatch]_vars

\* C7: the levels generateMapPic has been called for are always the first
\* names of the list, in list order, each once.  With debug off no exception
\* leaves wad2pic, every pass of the loop moves on to the next name, and
\* when wad2pic returns every name of the list has been attempted.  With
\* debug on the first level that raises is the last one attempted and the
\* exception leaves wad2pic.
C7_BatchIsolation ==
    /\ attempted = SubSeq(listOfMapNames, 1, Len(attempted))
    /\ ~debug =>
          /\ bpc # "propagated"
          /\ bpc = "loop" => Len(attempted) = mapIndex
          /\ bpc = "returned" => attempted = listOfMapNames
    /\ debug =>
          /\ \A k \in 1..(Len(attempted) - 1) : attempted[k] \notin failing
          /\ bpc = "propagated"
                <=> (attempted # <<>> /\ attempted[Len(attempted)] \in failing)
          /\ bpc = "returned" => attempted = listOfMapNames

\* a batch with debug off has returned although its first level and another
\* one raised
C7_Witness ==
    /\ ~debug /\ bpc = "returned"
    /\ Len(listOfMapNames) >= 3
    /\ listOfMapNames[1] \in failing /\ Cardinality(failing) >= 2
    /\ attempted = listOfMapNames

(***************************************************************************)
(* The geometry decoders.  A lump is its bytes (0..255) and the read       *)
(* position; the value None is the lump with isNone set.  A decoded name   *)
(* is the sequence of the code points of the Python string.                *)
(***************************************************************************)
NoLump == [isNone |-> TRUE, data |-> <<>>, position |-> 0]

\* Lump(data)
Lump(data) == [isNone |-> FALSE, data |-> data, position |-> 0]

\* a mutation of Read: the read pointer does not move
ReadInPlace(l, nBytes) ==
    [bytes |-> SubSeq(l.data, l.position + 1,
                      Min2(l.position + nBytes, Len(l.data))),
     lump |-> l]

\* Lump.read(nBytes): the bytes and the lump with its pointer moved
Read(l, nBytes) ==
    LET newPosition == Min2(l.position + nBytes, Len(l.data))
    IN  [bytes |-> SubSeq(l.data, l.position + 1, newPosition),
         lump |-> [l EXCEPT !.position = newPosition]]

RECURSIVE Unsigned(_)
\* int.from_bytes(bytes, "little", signed=False)
Unsigned(bytes) ==
    IF bytes = <<>> THEN 0 ELSE bytes[1] + 256 * Unsigned(Tail(bytes))

\* a mutation of Signed: only the first byte counts
SignedLowByte(bytes) ==
    IF bytes = <<>> THEN 0
    ELSE IF bytes[1] >= 128 THEN bytes[1] - 256 ELSE bytes[1]

\* int.from_bytes(bytes, "little", signed=True)
Signed(bytes) ==
    LET u == Unsigned(bytes)
    IN  IF bytes # <<>> /\ bytes[Len(bytes)] >= 128
        THEN u - 2 ^ (8 * Len(bytes)) ELSE u

\* str.upper() of one character decoded as ISO-8859-1
UpperCode(c) ==
    IF c >= 97 /\ c <= 122 THEN <<c - 32>>
    ELSE IF c = 181 THEN <<924>>
    ELSE IF c = 223 THEN <<83, 83>>
    ELSE IF c >= 224 /\ c <= 254 /\ c # 247 THEN <<c - 32>>
    ELSE IF c = 255 THEN <<376>>
    ELSE <<c>>

RECURSIVE UpperCodes(_)
\* bytes.decode("ISO-8859-1").upper()
UpperCodes(bytes) ==
    IF bytes = <<>> THEN <<>>
    ELSE UpperCode(bytes[1]) \o UpperCodes(Tail(bytes))

\* trailingZeros(name): everything after the first \x00 becomes \x00
trailingZeros(name) ==
    [k \in 1..Len(name) |->
        IF \E i \in 1..(k - 1) : name[i] = 0 THEN 0 ELSE name[k]]

\* trailingZeros(lump.read(8).decode("ISO-8859-1").upper())
DecodeName(bytes) == trailingZeros(UpperCodes(bytes))

Thing(x, y, angle, typeID, flags) ==
    [x |-> x, y |-> y, angle |-> angle, type |-> typeID, options |-> flags,
     sprite |-> <<>>, mirrored |-> FALSE]

\* how a decoder call ends
Returned(list) == [status |-> "returned", value |-> list]
Raised(error) == [status |-> error, value |-> <<>>]

RECURSIVE VertixesFrom(_, _)
\* the loop of getVertixes, count records to go
VertixesFrom(l, count) ==
    IF count = 0 THEN [list |-> <<>>, lump |-> l]
    ELSE LET rx == Read(l, 2)
             ry == Read(rx.lump, 2)
             rest == VertixesFrom(ry.lump, count - 1)
         IN  [list |-> <<Vertex(Signed(rx.bytes), -Signed(ry.bytes))>>
                          \o rest.list,
              lump |-> rest.lump]

\* getVertixes reads lump.length without looking whether the lump is None
getVertixes(l) ==
    IF l.isNone THEN [result |-> Raised("AttributeError"), lump |-> l]
    ELSE LET r == VertixesFrom(l, Len(l.data) \div 4)
         IN  [result |-> Returned(r.list), lump |-> r.lump]

RECURSIVE LineDefsFrom(_, _, _)
LineDefsFrom(l, z, count) ==
    IF count = 0 THEN [list |-> <<>>, lump |-> l]
    ELSE LET rbeg == Read(l, 2)
             rend == Read(rbeg.lump, 2)
             rflags == Read(rend.lump, 2)
             rskip == Read(rflags.lump, 4)
             rskipz == IF z THEN Read(rskip.lump, 2) ELSE rskip
             rfront == Read(rskipz.lump, 2)
             rback == Read(rfront.lump, 2)
             flags == Unsigned(rflags.bytes)
             rest == LineDefsFrom(rback.lump, z, count - 1)
         IN  [list |-> <<LineDef(Unsigned(rbeg.bytes), Unsigned(rend.bytes),
                                 Unsigned(rfront.bytes), Unsigned(rback.bytes),
                                 (flags \div 8) % 2, (flags \div 16) % 2)>>
                          \o rest.list,
              lump |-> rest.lump]

getLineDefs(l, z) ==
    IF l.isNone THEN [result |-> Returned(<<>>), lump |-> l]
    ELSE LET r == LineDefsFrom(l, z, Len(l.data) \div (IF z THEN 16 ELSE 14))
         IN  [result |-> Returned(r.list), lump |-> r.lump]

RECURSIVE SideDefsFrom(_, _)
SideDefsFrom(l, count) ==
    IF count = 0 THEN [list |-> <<>>, lump |-> l]
    ELSE LET rx == Read(l, 2)
             ry == Read(rx.lump, 2)
             rupper == Read(ry.lump, 8)
             rlower == Read(rupper.lump, 8)
             rmiddle == Read(rlower.lump, 8)
             rsector == Read(rmiddle.lump, 2)
             rest == SideDefsFrom(rsector.lump, count - 1)
         IN  [list |-> <<SideDef(Signed(rx.bytes), Signed(ry.bytes),
                                 DecodeName(rupper.bytes),
                                 DecodeName(rlower.bytes),
                                 DecodeName(rmiddle.bytes),
                                 Unsigned(rsector.bytes))>>
                          \o rest.list,
              lump |-> rest.lump]

getSideDefs(l) ==
    IF l.isNone THEN [result |-> Returned(<<>>), lump |-> l]
    ELSE LET r == SideDefsFrom(l, Len(l.data) \div 30)
         IN  [result |-> Returned(r.list), lump |-> r.lump]

RECURSIVE SectorsFrom(_, _)
SectorsFrom(l, count) ==
    IF count = 0 THEN [list |-> <<>>, lump |-> l]
    ELSE LET rfloor == Read(l, 2)
             rceiling == Read(rfloor.lump, 2)
             rftex == Read(rceiling.lump, 8)
             rctex == Read(rftex.lump, 8)
             rlight == Read(rctex.lump, 2)
             rskip == Read(rlight.lump, 4)
             light == Max2(Min2(Signed(rlight.bytes), 255), 0)
             rest == SectorsFrom(rskip.lump, count - 1)
         IN  [list |-> <<Sector(Signed(rfloor.bytes), Signed(rceiling.bytes),
                                DecodeName(rftex.bytes),
                                DecodeName(rctex.bytes), light)>>
                          \o rest.list,
              lump |-> rest.lump]

getSectors(l) ==
    IF l.isNone THEN [result |-> Returned(<<>>), lump |-> l]
    ELSE LET r == SectorsFrom(l, Len(l.data) \div 26)
         IN  [result |-> Returned(r.list), lump |-> r.lump]

RECURSIVE ThingsFrom(_, _, _)
ThingsFrom(l, z, count) ==
    IF count = 0 THEN [list |-> <<>>, lump |-> l]
    ELSE LET rid == IF z THEN Read(l, 2) ELSE Read(l, 0)
             rx == Read(rid.lump, 2)
             ry == Read(rx.lump, 2)
             rz == IF z THEN Read(ry.lump, 2) ELSE ry
             rangle == Read(rz.lump, 2)
             rtype == Read(rangle.lump, 2)
             roptions == Read(rtype.lump, 2)
             rskip == IF z THEN Read(roptions.lump, 6) ELSE roptions
             rest == ThingsFrom(rskip.lump, z, count - 1)
         IN  [list |-> <<Thing(Signed(rx.bytes), -Signed(ry.bytes),
                               Signed(rangle.bytes), Signed(rtype.bytes),
                               Signed(roptions.bytes))>>
                          \o rest.list,
              lump |-> rest.lump]

getThings(l, z) ==
    IF l.isNone THEN [result |-> Returned(<<>>), lump |-> l]
    ELSE LET r == ThingsFrom(l, z, Len(l.data) \div (IF z THEN 20 ELSE 10))
         IN  [result |-> Returned(r.list), lump |-> r.lump]

(***************************************************************************)
(* The lumps of the modelled decoder calls: up to MaxRecords records taken *)
(* from a few sample records of each type, followed by 0, 1 or 3 bytes of  *)
(* an incomplete record.                                                   *)
(***************************************************************************)
\* the two bytes of a 16-bit value, little-endian
Bytes2(v) == LET u == IF v < 0 THEN v + 65536 ELSE v
             IN  <<u % 256, u \div 256>>

\* a name padded to 8 bytes with \x00
Name8(codes) == codes \o [k \in 1..(8 - Len(codes)) |-> 0]

\* nBytes bytes the decoders skip
Filler(nBytes) == [k \in 1..nBytes |-> 170]

SampleVertexes ==
    {Bytes2(x) \o Bytes2(y) : x \in {0, -3, 258}, y \in {0, 5, -32768}}

SampleLineDefs(z) ==
    {Bytes2(ld[1]) \o Bytes2(ld[2]) \o Bytes2(ld[3])
        \o Filler(IF z THEN 6 ELSE 4) \o Bytes2(ld[4]) \o Bytes2(ld[5]) :
     ld \in {<<0, 1, 0, 0, NoSide>>, <<1, 2, 24, 1, 0>>,
             <<2, 0, 16, 0, 1>>, <<513, 2, 9, NoSide, NoSide>>,
             <<1, 2, 25, 1, 0>>}}

\* "-", "wall", "W\x00X" and "stra\xdfe" among the texture names
SampleSideDefs ==
    {Bytes2(sd[1]) \o Bytes2(sd[2]) \o Name8(sd[3]) \o Name8(sd[4])
        \o Name8(sd[5]) \o Bytes2(sd[6]) :
     sd \in {<<0, 0, <<45>>, <<45>>, <<87, 65, 76, 76>>, 0>>,
             <<-8, 16, <<119, 97, 108, 108>>, <<45>>, <<45>>, 1>>,
             <<-8, 16, <<87, 65, 76, 76>>, <<45>>, <<45>>, 1>>,
             <<300, -1, <<87, 0, 88>>, <<115, 116, 114, 97, 223, 101>>,
               <<45>>, 65535>>}}

SampleSectors ==
    {Bytes2(sc[1]) \o Bytes2(sc[2]) \o Name8(sc[3]) \o Name8(sc[4])
        \o Bytes2(sc[5]) \o Filler(4) :
     sc \in {<<0, 128, <<70, 76, 79, 79, 82>>, <<67, 69, 73, 76>>, 160>>,
             <<-16, 0, <<102, 95, 115, 107, 121, 49>>, <<45>>, 300>>,
             <<-16, 0, <<70, 95, 83, 75, 89, 49>>, <<45>>, 255>>,
             <<8, 8, <<70, 0, 71>>, <<67, 69, 73, 76>>, -5>>}}

SampleThings(z) ==
    {(IF z THEN Filler(2) ELSE <<>>) \o Bytes2(t[1]) \o Bytes2(t[2])
        \o (IF z THEN Filler(2) ELSE <<>>) \o Bytes2(t[3]) \o Bytes2(t[4])
        \o Bytes2(t[5]) \o (IF z THEN Filler(6) ELSE <<>>) :
     t \in {<<0, 0, 0, 1, 7>>, <<-64, 32, 90, 3004, 4>>,
            <<100, -32768, 270, 2035, 23>>}}

SampleRecords(k, z) ==
    CASE k = "VERTEXES" -> SampleVertexes
      [] k = "LINEDEFS" -> SampleLineDefs(z)
      [] k = "SIDEDEFS" -> SampleSideDefs
      [] k = "SECTORS" -> SampleSectors
      [] k = "THINGS" -> SampleThings(z)

SampleTails == {<<>>, <<7>>, <<1, 2, 3>>}

SampleLumps(k, z) ==
    {Lump(Concat(recs) \o tail) :
        recs \in UNION {[1..c -> SampleRecords(k, z)] : c \in 0..MaxRecords},
        tail \in SampleTails}

Kinds == {"VERTEXES", "LINEDEFS", "SIDEDEFS", "SECTORS", "THINGS"}

InitDecode ==
    /\ IdleRaster /\ IdleBatch /\ IdlePaint /\ IdleThings
    /\ IdleArchive
    /\ kind \in Kinds
    /\ zStyle \in BOOLEAN
    /\ zStyle => kind \in {"LINEDEFS", "THINGS"}
    /\ lump \in {NoLump} \cup SampleLumps(kind, zStyle)
    /\ decoded = [status |-> "pending", value |-> <<>>]

\* the end of a decoder call
Decoded(r) ==
    /\ decoded' = r.result
    /\ lump' = r.lump
    /\ UNCHANGED <<zStyle, kind>>
    /\ UNCHANGED notDecode

GetVertixes ==
    /\ kind = "VERTEXES" /\ decoded.status = "pending"
    /\ Decoded(getVertixes(lump))

GetLineDefs ==
    /\ kind = "LINEDEFS" /\ decoded.status = "pending"
    /\ Decoded(getLineDefs(lump, zStyle))

GetSideDefs ==
    /\ kind = "SIDEDEFS" /\ decoded.status = "pending"
    /\ Decoded(getSideDefs(lump))

GetSectors ==
    /\ kind = "SECTORS" /\ decoded.status = "pending"
    /\ Decoded(getSectors(lump))

GetThings ==
    /\ kind = "THINGS" /\ decoded.status = "pending"
    /\ Decoded(getThings(lump, zStyle))

NextDecode ==
    GetVertixes \/ GetLineDefs \/ GetSideDefs \/ GetSectors \/ GetThings

SpecDecode == InitDecode /\ [][NextDecode]_vars

\* C10: each of the five geometry decoders, given an absent lump (None),
\* returns an empty list and does not raise.
C10_AbsentLumpEmptyList ==
    (lump.isNone /\ decoded.status \notin {"off", "pending"})
        => decoded = Returned(<<>>)

\* the record stride of each geometry type
Stride(k, z) ==
    CASE k = "VERTEXES" -> 4
      [] k = "LINEDEFS" -> IF z THEN 16 ELSE 14
      [] k = "SIDEDEFS" -> 30
      [] k = "SECTORS" -> 26
      [] k = "THINGS" -> IF z THEN 20 ELSE 10

\* the decoder of kind k called on lump l
DecoderOf(k, z, l) ==
    CASE k = "VERTEXES" -> getVertixes(l)
      [] k = "LINEDEFS" -> getLineDefs(l, z)
      [] k = "SIDEDEFS" -> getSideDefs(l)
      [] k = "SECTORS" -> getSectors(l)
      [] k = "THINGS" -> getThings(l, z)

\* bytes [i*S, (i+1)*S) of a lump
RecordBytes(l, i, S) == SubSeq(l.data, i * S + 1, (i + 1) * S)

\* a decoder call on a lump that is not None has ended
DecodedLump == ~lump.isNone /\ decoded.status \notin {"off", "pending"}

\* C11: for every geometry lump of byte length L and record stride S
\* (vertices 4, line segments 14 legacy / 16 extended, sides 30, sectors 26,
\* objects 10 legacy / 20 extended), the decoder returns exactly floor(L/S)
\* entities in file order, entity i being decoded from bytes
\* [i*S, (i+1)*S), and trailing bytes beyond the last whole record are
\* ignored without error.
C11_WholeRecordsInFileOrder ==
    DecodedLump =>
        /\ decoded.status = "returned"
        /\ Len(decoded.value) = Len(lump.data) \div Stride(kind, zStyle)
        /\ \A i \in 1..Len(decoded.value) :
            DecoderOf(kind, zStyle,
                      Lump(RecordBytes(lump, i - 1, Stride(kind, zStyle)))).result
                = Returned(<<decoded.value[i]>>)

\* a decoder has returned two different entities from a lump that ends in
\* an incomplete record
C11_Witness ==
    /\ DecodedLump
    /\ Len(decoded.value) = 2
    /\ decoded.value[1] # decoded.value[2]
    /\ Len(lump.data) % Stride(kind, zStyle) # 0

\* the decoder has returned the entities of a lump
ReturnedLump == DecodedLump /\ decoded.status = "returned"

\* C12 as stated: for every valid little-endian record of each geometry
\* type (vertex, line segment, side, sector, placed object), decoding the
\* record and re-encoding the decoded entity reproduces the original record
\* bytes exactly.  Whatever the re-encoding is, it is a function of the
\* entity, so two records decoded to equal entities are equal byte for byte.
C12_EntityDeterminesRecord ==
    ReturnedLump =>
        \A i, j \in 1..Len(decoded.value) :
            decoded.value[i] = decoded.value[j]
                => RecordBytes(lump, i - 1, Stride(kind, zStyle))
                     = RecordBytes(lump, j - 1, Stride(kind, zStyle))

\* the record types whose entity keeps every byte of the record
KeepsEveryByte == kind = "VERTEXES" \/ (kind = "THINGS" /\ ~zStyle)

\* the fields of a vertex or of a legacy placed object written back as
\* 16-bit little-endian values, y negated back
Reencoded(k, entity) ==
    IF k = "VERTEXES" THEN Bytes2(entity.x) \o Bytes2(-entity.y)
    ELSE Bytes2(entity.x) \o Bytes2(-entity.y) \o Bytes2(entity.angle)
            \o Bytes2(entity.type) \o Bytes2(entity.options)

\* C12, amended: for every vertex record and every legacy (10-byte) placed
\* object record, decoding the record and writing the fields of the decoded
\* entity back reproduces the original record bytes exactly.
C12_VertexAndLegacyThingRoundTrip ==
    (ReturnedLump /\ KeepsEveryByte) =>
        \A i \in 1..Len(decoded.value) :
            Reencoded(kind, decoded.value[i])
                = RecordBytes(lump, i - 1, Stride(kind, zStyle))

\* a record with a negative field and the y of -32768 has been decoded
C12_Witness ==
    /\ ReturnedLump /\ KeepsEveryByte
    /\ \E i \in 1..Len(decoded.value) :
        decoded.value[i].x < 0 /\ decoded.value[i].y = 32768

(***************************************************************************)
(* pasteWall called on two walls in either order, on an empty z-buffer.    *)
(***************************************************************************)
\* the longest side of a wall of the scene, and its greatest ceiling
WallSpan == 2
MaxCeiling == 3

\* where the walls of the scene run: along the far side of a square, along
\* its near side in both directions, across it, and a wall of no length
SceneSegments ==
    {<<0, 0, WallSpan, 0>>,
     <<0, WallSpan, WallSpan, WallSpan>>, <<WallSpan, WallSpan, 0, WallSpan>>,
     <<0, 0, WallSpan, WallSpan>>, <<0, 0, 0, 0>>}

\* texture, position and isBack, as genWalls combines them
SceneFinishes ==
    {<<"WALL", "proper", FALSE>>, <<"GLASS", "proper", FALSE>>,
     <<"GRATE", "mid", FALSE>>, <<"WALL", "top", TRUE>>,
     <<NoTexture, "proper", FALSE>>, <<"MISSING", "top", FALSE>>}

SceneWalls ==
    {Wall(g[1], g[2], g[3], g[4], 0, c, f[1], 0, 0, TRUE, f[2], 160, f[3]) :
        g \in SceneSegments, c \in {0, MaxCeiling},
        f \in SceneFinishes}

InitPaste ==
    /\ IdleBatch /\ IdleDecode /\ IdleThings
    /\ IdleArchive
    /\ vertexes = <<>> /\ linedefs = <<>> /\ sidedefs = <<>> /\ sectors = <<>>
    /\ pc = "off" /\ walls = <<>>
    /\ px = NoImage /\ sectorData = NoImage
    /\ n = 0 /\ side = 0
    /\ fpc = "idle" /\ fillSector = -1 /\ startPix = <<0, 0>> /\ toGo = <<>>
    /\ snapPx = NoImage /\ snapSd = NoImage /\ written = {}
    /\ thisPix = <<0, 0>> /\ outcome = "none" /\ started = {}
    /\ imSize = <<WallSpan + 3, WallSpan + 3>>
    /\ offset = <<1, 1>>
    /\ scene \in SceneWalls \X SceneWalls
    /\ zBuffer = [p \in Raster(imSize) |-> NoDepth]
    /\ px2 = [p \in Raster(imSize) |-> 0]
    /\ pasted = <<>>

\* one call of pasteWall, on a wall of the scene not pasted yet
PasteWall ==
    /\ \E k \in (1..Len(scene)) \ Range(pasted) :
        LET st == pasteWall([px2 |-> px2, zBuffer |-> zBuffer], scene[k],
                            PasteTextures, offset, k, imSize)
        IN  /\ px2' = st.px2
            /\ zBuffer' = st.zBuffer
            /\ pasted' = Append(pasted, k)
    /\ UNCHANGED <<imSize, offset, scene>>
    /\ UNCHANGED notPaste

NextPaste == PasteWall

SpecPaste == InitPaste /\ [][NextPaste]_vars

\* the candidate pixels of wall k of the scene at position p: the pixels of
\* its copying loop that land on p and are not fully transparent
CandidatesAt(k, p) ==
    LET columns == WallPixels(scene[k], PasteTextures, offset)
    IN  {c \in UNION {Range(columns[i]) : i \in 1..Len(columns)} :
            c.pos = p /\ c.alpha # 0}

\* the depth of the nearest candidate of wall k at p
DepthAt(k, p) == SetMax({c.y : c \in CandidatesAt(k, p)})

\* the wall of the two that is nearer at p
NearerAt(p) == IF DepthAt(1, p) > DepthAt(2, p) THEN 1 ELSE 2

BothCover(p) ==
    /\ CandidatesAt(1, p) # {} /\ CandidatesAt(2, p) # {}
    /\ DepthAt(1, p) # DepthAt(2, p)

\* every candidate of both walls at p is drawn with an opacity of 80 or more
Occluding(p) ==
    \A c \in CandidatesAt(1, p) \cup CandidatesAt(2, p) : c.opacity >= 80

NearerWon(p) ==
    /\ zBuffer[p] = DepthAt(NearerAt(p), p)
    /\ px2[p] = NearerAt(p)

\* C2 as stated: for any two walls that each have a non-transparent
\* candidate pixel at the same raster position with different world depths,
\* after both have been drawn (whichever first) the z-buffer there holds the
\* nearer (greater) depth and the last colour written there came from the
\* nearer wall.
C2_NearerWallWins ==
    Len(pasted) = 2 =>
        \A p \in Raster(imSize) : BothCover(p) => NearerWon(p)

\* C2 amended: the same, for positions where every candidate pixel of both
\* walls is drawn with an opacity of at least 80 (the alpha of the wall
\* image, or the fixed 80 of a wall facing away).
C2_OccludingNearerWallWins ==
    Len(pasted) = 2 =>
        \A p \in Raster(imSize) : (BothCover(p) /\ Occluding(p)) => NearerWon(p)

\* both walls drawn, the farther one last, on a position both cover with
\* occluding pixels
C2_Witness ==
    /\ Len(pasted) = 2
    /\ \E p \in Raster(imSize) :
        /\ BothCover(p) /\ Occluding(p)
        /\ NearerAt(p) = pasted[1]
        /\ px2[p] = pasted[1]

(***************************************************************************)
(* generateMapPic from checkHOM to the end of drawMap, on a square room    *)
(* with objects in it.                                                     *)
(***************************************************************************)
\* how many objects the level has at most
MaxThings == 2

\* the objects a level of the model picks from, in the order of the lump:
\* a Wolfenstein SS (no sprite in the archive), a zombieman, an imp seen
\* from its mirrored side and a barrel, both on the near wall, a
\* multiplayer-only zombieman, a zombieman outside the room, and an object
\* of no known type
ThingRoster ==
    <<Thing(1, 2, 270, 84, 7), Thing(1, 1, 270, 3004, 7),
      Thing(2, MaxSide - 1, 315, 3001, 7), Thing(1, MaxSide - 1, 0, 2035, 7),
      Thing(1, 1, 270, 3004, 23), Thing(MaxSide, 1, 270, 3004, 7),
      Thing(2, 2, 0, 9999, 7)>>

\* the levels' object lists: the objects of the roster at the places picks
ThingLists ==
    {[k \in 1..Len(picks) |-> ThingRoster[picks[k]]] :
        picks \in {q \in UNION {[1..c -> 1..Len(ThingRoster)] : c \in 0..MaxThings} :
                    \A i, j \in 1..Len(q) : i < j => q[i] < q[j]}}

\* the lump names of the archive, in an order its set may yield
Archive ==
    <<addTrailingZeros(<<"P", "O", "S", "S", "A", "1">>),
      addTrailingZeros(<<"P", "O", "S", "S", "B", "1">>),
      addTrailingZeros(<<"T", "R", "O", "O", "A", "2", "A", "8">>),
      addTrailingZeros(<<"B", "A", "R", "1", "A", "0">>)>>

Reverse(seq) == [k \in 1..Len(seq) |-> seq[Len(seq) + 1 - k]]

InitDraw ==
    /\ IdleBatch /\ IdleDecode /\ IdlePaint /\ IdleDraw
    /\ IdleArchive
    /\ \E d \in {"none", "split"}, first \in {"cw", "ccw"} :
        /\ first = "ccw" => d = "none"
        /\ vertexes = SquareVertexes(MaxSide - 1)
        /\ linedefs = RoomLines([k \in 0..3 |-> IF k = 0 THEN first ELSE "cw"],
                                0, d, FALSE)
    /\ sidedefs = RoomSidedefs
    /\ sectors = RoomSectors
    /\ pc = "checkHOM"
    /\ walls = <<>>
    /\ imSize = <<0, 0>> /\ offset = <<0, 0>>
    /\ px = NoImage /\ sectorData = NoImage
    /\ n = 0 /\ side = 0
    /\ fpc = "idle" /\ fillSector = -1 /\ startPix = <<0, 0>> /\ toGo = <<>>
    /\ snapPx = NoImage /\ snapSd = NoImage /\ written = {}
    /\ thisPix = <<0, 0>> /\ outcome = "none" /\ started = {}
    /\ things \in ThingLists
    /\ allLumps \in {Archive, Reverse(Archive)}
    /\ options = PlainOptions
    /\ stages = <<>> /\ loaded = <<>>

\* the loop over walls and objects as drawMap runs it
CurrentJob == Job(walls, thingsList, sprites, sectorData, sectors, offset, imSize)

\* the z-buffer and the final picture are created and the floors drawn
DrawFloors ==
    /\ pc = "seamed"
    /\ LET st == drawFloors(sectorData, sectors, imSize)
       IN  /\ px2' = st.px2
           /\ zBuffer' = st.zBuffer
    /\ drawPos' = Advance(FirstPos, CurrentJob)
    /\ drawLog' = <<Visit("floors", 0, <<>>, TRUE, <<>>, -1, {})>>
    /\ pc' = "draw"
    /\ UNCHANGED notDraw

\* one wall of "for wall in walls[distance]"
DrawWall ==
    /\ pc = "draw" /\ drawPos.n <= Len(CurrentJob.keys)
    /\ drawPos.phase = "walls"
    /\ LET v == WallVisit([px2 |-> px2, zBuffer |-> zBuffer], drawPos, CurrentJob)
       IN  /\ px2' = v.st.px2
           /\ zBuffer' = v.st.zBuffer
           /\ drawLog' = Append(drawLog, v.entry)
    /\ drawPos' = Advance([drawPos EXCEPT !.k = @ + 1], CurrentJob)
    /\ UNCHANGED <<pc, notDraw>>

\* one object of "for thing in thingsList[distance]"
DrawThing ==
    /\ pc = "draw" /\ drawPos.n <= Len(CurrentJob.keys)
    /\ drawPos.phase = "things"
    /\ LET v == ThingVisit([px2 |-> px2, zBuffer |-> zBuffer], drawPos, CurrentJob)
       IN  /\ px2' = v.st.px2
           /\ zBuffer' = v.st.zBuffer
           /\ drawLog' = Append(drawLog, v.entry)
    /\ drawPos' = Advance([drawPos EXCEPT !.k = @ + 1], CurrentJob)
    /\ UNCHANGED <<pc, notDraw>>

\* "return im2"
DrawMapReturns ==
    /\ pc = "draw" /\ drawPos.n > Len(CurrentJob.keys)
    /\ pc' = "returned"
    /\ UNCHANGED <<zBuffer, px2, drawPos, drawLog, notDraw>>

NextDraw ==
    \/ CheckHOM \/ GenWalls \/ ParseThings \/ DrawBlueprint \/ SkipSide
    \/ StartFill \/ FillStep \/ FillReturnsTrue \/ RollBack \/ FillSeams
    \/ DrawFloors \/ DrawWall \/ DrawThing \/ DrawMapReturns

SpecDraw == InitDraw /\ [][NextDraw]_vars

(***************************************************************************)
(* Properties of the draw order (checked under SpecDraw).                  *)
(***************************************************************************)
\* the walls in the order genWalls makes them, the objects in the order
\* parseThings keeps them, each with its key
WallsMade == WallEntries(1, vertexes, linedefs, sidedefs, sectors)
ThingsKept ==
    ThingEntries(things, [k \in 1..Len(things) |-> k], 1, allLumps, options, 0)

\* the walls (what = "wall") or objects (what = "thing") drawMap visited at
\* key d, in the order of the visits
VisitedAt(what, d) ==
    LET hit(e) == e.what = what /\ e.key = d
        sel == SelectSeq(drawLog, hit)
    IN  [k \in 1..Len(sel) |-> sel[k].item]

\* the walls or objects made with key d, in the order they were made
MadeAt(entries, d) ==
    LET hit(e) == e.distance = d
        sel == SelectSeq(entries, hit)
    IN  [k \in 1..Len(sel) |-> IF "wall" \in DOMAIN sel[k] THEN sel[k].wall
                               ELSE sel[k].thing]

\* the visits so far are in draw order: the floors first, the keys never
\* descending, and at one key no wall after an object
InDrawOrder ==
    /\ \A i \in 1..Len(drawLog) : (drawLog[i].what = "floors") <=> (i = 1)
    /\ \A i, j \in 2..Len(drawLog) : i < j =>
        /\ drawLog[i].key <= drawLog[j].key
        /\ drawLog[i].key = drawLog[j].key =>
            ~(drawLog[i].what = "thing" /\ drawLog[j].what = "wall")

\* C3: drawMap paints all floors first and then visits the union of wall and
\* object draw-distance keys in strictly ascending order; at each key every
\* wall of that bucket is drawn in insertion (line-segment) order and then
\* every object of that bucket in insertion order, and every wall and every
\* object is visited exactly once.
C3_DrawOrder ==
    /\ pc \in {"draw", "returned"} => InDrawOrder
    /\ pc = "returned" =>
        /\ Len(drawLog) = 1 + Len(WallsMade) + Len(ThingsKept)
        /\ \A d \in {drawLog[i].key : i \in 2..Len(drawLog)} :
            /\ VisitedAt("wall", d) = MadeAt(WallsMade, d)
            /\ VisitedAt("thing", d) = MadeAt(ThingsKept, d)

\* drawMap has returned after visiting two walls at one key and, at a later
\* key, a wall and then two objects
C3_Witness ==
    /\ pc = "returned"
    /\ \E i, j \in 2..Len(drawLog) :
        /\ i + 1 < j /\ j + 2 <= Len(drawLog)
        /\ drawLog[i].what = "wall" /\ drawLog[i + 1].what = "wall"
        /\ drawLog[i].key = drawLog[i + 1].key
        /\ drawLog[i].key < drawLog[j].key
        /\ drawLog[j].what = "wall"
        /\ drawLog[j + 1].what = "thing" /\ drawLog[j + 2].what = "thing"
        /\ drawLog[j].key = drawLog[j + 2].key
        /\ drawLog[j + 1].item.id < drawLog[j + 2].item.id

\* the object with number u was kept by parseThings and its sprite name has
\* no decoded sprite
Unresolvable(u) ==
    \E k \in 1..Len(ThingsKept) :
        /\ ThingsKept[k].thing.id = u
        /\ ThingsKept[k].thing.sprite \notin DOMAIN sprites

\* what the visits of the objects other than u show of each: whether
\* pasteThing was called, the draw position, the sector looked up and the
\* cells written
OthersTrace(log, u) ==
    LET hit(e) == e.what = "thing" /\ e.item.id # u
        sel == SelectSeq(log, hit)
    IN  [k \in 1..Len(sel) |->
            <<sel[k].item.id, sel[k].called, sel[k].at, sel[k].sector,
              sel[k].wrote>>]

\* the visits of drawMap on the level without object u
WithoutThing(u) ==
    LET keep == SelectSeq([k \in 1..Len(things) |-> k], LAMBDA k : k # u)
        r == parseThings([k \in 1..Len(keep) |-> things[keep[k]]], keep,
                         allLumps, options)
        job == Job(walls, r.thingsList, getPictures(r.sprites, allLumps),
                   sectorData, sectors, offset, imSize)
    IN  RenderFrom([st |-> drawFloors(sectorData, sectors, imSize),
                    log |-> <<>>, pos |-> Advance(FirstPos, job)], job).log

\* C6: a placed object whose resolved sprite name has no matching decoded
\* sprite is dropped by pasteThing without writing any image pixel or
\* z-buffer cell, and the draw position, sector lookup and z-buffer writes
\* of every other object are the same as if the unresolvable object were
\* not in the level.
C6_DroppedObjectHasNoEffect ==
    pc = "returned" =>
        \A u \in 1..Len(things) : Unresolvable(u) =>
            /\ \A i \in 1..Len(drawLog) :
                (drawLog[i].what = "thing" /\ drawLog[i].item.id = u)
                    => drawLog[i].wrote = {}
            /\ OthersTrace(drawLog, u) = OthersTrace(WithoutThing(u), u)

(***************************************************************************)
(* generateMapPic: the shrink, the rotation and the scale along Y, and the  *)
(* pipeline that follows them.                                             *)
(***************************************************************************)
\* rotatePoint(x, y, 30) for 0 <= x, y <= 9, as the float arithmetic of the
\* function (radians, atan2, sqrt, sin, cos and int()) gives it: row x + 1,
\* column y + 1
Rotated30 ==
    <<
      <<<<0, 0>>, <<0, 0>>, <<0, 1>>, <<-1, 2>>, <<-1, 3>>,
        <<-2, 4>>, <<-2, 5>>, <<-3, 6>>, <<-3, 6>>, <<-4, 7>>>>,
      <<<<0, 0>>, <<0, 1>>, <<0, 2>>, <<0, 3>>, <<-1, 3>>,
        <<-1, 4>>, <<-2, 5>>, <<-2, 6>>, <<-3, 7>>, <<-3, 8>>>>,
      <<<<1, 0>>, <<1, 1>>, <<0, 2>>, <<0, 3>>, <<0, 4>>,
        <<0, 5>>, <<-1, 6>>, <<-1, 7>>, <<-2, 7>>, <<-2, 8>>>>,
      <<<<2, 1>>, <<2, 2>>, <<1, 3>>, <<1, 4>>, <<0, 4>>,
        <<0, 5>>, <<0, 6>>, <<0, 7>>, <<-1, 8>>, <<-1, 9>>>>,
      <<<<3, 1>>, <<2, 2>>, <<2, 3>>, <<1, 4>>, <<1, 5>>,
        <<0, 6>>, <<0, 7>>, <<0, 8>>, <<0, 8>>, <<-1, 9>>>>,
      <<<<4, 2>>, <<3, 3>>, <<3, 4>>, <<2, 5>>, <<2, 5>>,
        <<1, 6>>, <<1, 7>>, <<0, 8>>, <<0, 9>>, <<0, 10>>>>,
      <<<<5, 2>>, <<4, 3>>, <<4, 4>>, <<3, 5>>, <<3, 6>>,
        <<2, 7>>, <<2, 8>>, <<1, 9>>, <<1, 9>>, <<0, 10>>>>,
      <<<<6, 3>>, <<5, 4>>, <<5, 5>>, <<4, 6>>, <<4, 6>>,
        <<3, 7>>, <<3, 8>>, <<2, 9>>, <<2, 10>>, <<1, 11>>>>,
      <<<<6, 3>>, <<6, 4>>, <<5, 5>>, <<5, 6>>, <<4, 7>>,
        <<4, 8>>, <<3, 9>>, <<3, 10>>, <<2, 10>>, <<2, 11>>>>,
      <<<<7, 4>>, <<7, 5>>, <<6, 6>>, <<6, 7>>, <<5, 7>>,
        <<5, 8>>, <<4, 9>>, <<4, 10>>, <<3, 11>>, <<3, 12>>>>
    >>

\* the angles the levels are rotated by, with the values of rotatePoint
RotatedBy == (30 :> Rotated30)

rotatePoint(x, y, rotateDeg) == RotatedBy[rotateDeg][x + 1][y + 1]

\* applyRotation: the vertexes and the objects it leaves
applyRotation(vs, ts, rotate) ==
    [vertexes |-> [k \in DOMAIN vs |->
        [x |-> rotatePoint(vs[k].x, vs[k].y, rotate)[1],
         y |-> rotatePoint(vs[k].x, vs[k].y, rotate)[2]]],
     things |-> [k \in DOMAIN ts |->
        [ts[k] EXCEPT !.x = rotatePoint(ts[k].x, ts[k].y, rotate)[1],
                      !.y = rotatePoint(ts[k].x, ts[k].y, rotate)[2],
                      !.angle = IF @ - rotate < 0 THEN @ - rotate + 360
                                ELSE @ - rotate]]]

\* applyScaleY, for a scaleY of scaleY10 tenths
applyScaleY(vs, ts, scaleY10) ==
    [vertexes |-> [k \in DOMAIN vs |->
        [vs[k] EXCEPT !.y = Trunc(@ * scaleY10, 10)]],
     things |-> [k \in DOMAIN ts |->
        [ts[k] EXCEPT !.y = Trunc(@ * scaleY10, 10)]]]

\* applyShrinkage
applyShrinkage(vs, ts, sds, secs, shrink) ==
    [vertexes |-> [k \in DOMAIN vs |->
        [x |-> vs[k].x \div shrink, y |-> vs[k].y \div shrink]],
     things |-> [k \in DOMAIN ts |->
        [ts[k] EXCEPT !.x = @ \div shrink, !.y = @ \div shrink]],
     sidedefs |-> [k \in DOMAIN sds |->
        [sds[k] EXCEPT !.xOffset = @ \div shrink, !.yOffset = @ \div shrink]],
     sectors |-> [k \in DOMAIN secs |->
        [secs[k] EXCEPT !.floorHeight = @ \div shrink,
                        !.ceilingHeight = @ \div shrink]]]

\* a mutation of StageAfter: the scale along Y before the rotation
StageAfterSwapped(stage) ==
    CASE stage = "shrink" -> "scaleY"
      [] stage = "scaleY" -> "rotate"
      [] stage = "rotate" -> "checkHOM"

\* the statement that follows a transform in generateMapPic
StageAfter(stage) ==
    CASE stage = "shrink" -> "rotate"
      [] stage = "rotate" -> "scaleY"
      [] stage = "scaleY" -> "checkHOM"

\* what the transforms leave alone
notTransform == <<linedefs, walls, imSize, offset, px, sectorData, n, side,
                  fillVars, started, batchVars, decodeVars, paintVars,
                  allLumps, options, loaded, drawVars, archiveVars>>

\* "if shrink != 1: applyShrinkage(...)"
ApplyShrinkage ==
    /\ pc = "shrink"
    /\ IF options.shrink # 1
       THEN LET r == applyShrinkage(vertexes, things, sidedefs, sectors,
                                    options.shrink)
            IN  /\ vertexes' = r.vertexes /\ things' = r.things
                /\ sidedefs' = r.sidedefs /\ sectors' = r.sectors
                /\ stages' = Append(stages, "shrink")
       ELSE UNCHANGED <<vertexes, things, sidedefs, sectors, stages>>
    /\ pc' = StageAfter("shrink")
    /\ UNCHANGED notTransform

\* "if rotate != 0: applyRotation(...)"
ApplyRotation ==
    /\ pc = "rotate"
    /\ IF options.rotate # 0
       THEN LET r == applyRotation(vertexes, things, options.rotate)
            IN  /\ vertexes' = r.vertexes /\ things' = r.things
                /\ stages' = Append(stages, "rotate")
       ELSE UNCHANGED <<vertexes, things, stages>>
    /\ pc' = StageAfter("rotate")
    /\ UNCHANGED <<sidedefs, sectors, notTransform>>

\* "if scaleY != 1: applyScaleY(...)"
ApplyScaleY ==
    /\ pc = "scaleY"
    /\ IF options.scaleY10 # 10
       THEN LET r == applyScaleY(vertexes, things, options.scaleY10)
            IN  /\ vertexes' = r.vertexes /\ things' = r.things
                /\ stages' = Append(stages, "scaleY")
       ELSE UNCHANGED <<vertexes, things, stages>>
    /\ pc' = StageAfter("scaleY")
    /\ UNCHANGED <<sidedefs, sectors, notTransform>>

\* the option values the levels are drawn with: --shrink, --rotate and
\* --iso in tenths
Shrinks == {1, 2}
Rotations == {0, 30}
ScaleYs10 == {10, 8}

\* the objects of the levels: none, a zombieman, an imp and a zombieman
PipeThings ==
    {<<>>, <<Thing(2, 2, 270, 3004, 7)>>,
     <<Thing(MaxSide, 3, 315, 3001, 7), Thing(3, 2, 270, 3004, 7)>>}

\* a square room of side MaxSide + 2, its first side drawn either way
InitPipe ==
    /\ IdleBatch /\ IdleDecode /\ IdlePaint /\ IdleDraw
    /\ IdleArchive
    /\ vertexes = SquareVertexes(MaxSide + 2)
    /\ \E first \in {"cw", "ccw"} :
        linedefs = RoomLines([k \in 0..3 |-> IF k = 0 THEN first ELSE "cw"],
                             0, "none", FALSE)
    /\ sidedefs = <<SideDef(3, 5, "-", "-", "WALL", 0)>>
    /\ sectors = <<Sector(0, 3, "FLOOR", "CEIL", 160)>>
    /\ pc = "shrink"
    /\ walls = <<>>
    /\ imSize = <<0, 0>> /\ offset = <<0, 0>>
    /\ px = NoImage /\ sectorData = NoImage
    /\ n = 0 /\ side = 0
    /\ fpc = "idle" /\ fillSector = -1 /\ startPix = <<0, 0>> /\ toGo = <<>>
    /\ snapPx = NoImage /\ snapSd = NoImage /\ written = {}
    /\ thisPix = <<0, 0>> /\ outcome = "none" /\ started = {}
    /\ things \in PipeThings
    /\ allLumps = Archive
    /\ options \in [shrink : Shrinks, rotate : Rotations, scaleY10 : ScaleYs10,
                    difficulty : {4}, deathmatch : {FALSE}]
    /\ stages = <<>>
    /\ loaded = [vertexes |-> vertexes, things |-> things]

NextPipe ==
    \/ ApplyShrinkage \/ ApplyRotation \/ ApplyScaleY
    \/ CheckHOM \/ GenWalls \/ ParseThings \/ DrawBlueprint \/ SkipSide
    \/ StartFill \/ FillStep \/ FillReturnsTrue \/ RollBack \/ FillSeams
    \/ DrawFloors \/ DrawWall \/ DrawThing \/ DrawMapReturns

SpecPipe == InitPipe /\ [][NextPipe]_vars

\* the transforms still to run or running
Transforming == pc \in {"shrink", "rotate", "scaleY"}

\* the transforms the options ask for, in the order of the claim
StagesAsked ==
    LET asked(s) == \/ s = "shrink" /\ options.shrink # 1
                    \/ s = "rotate" /\ options.rotate # 0
                    \/ s = "scaleY" /\ options.scaleY10 # 10
    IN  SelectSeq(<<"shrink", "rotate", "scaleY">>, asked)

\* where shrink, then rotation, then the scale along Y put the loaded
\* point (x, y)
Transformed(x, y) ==
    LET a == IF options.shrink # 1
             THEN <<x \div options.shrink, y \div options.shrink>>
             ELSE <<x, y>>
        b == IF options.rotate # 0
             THEN rotatePoint(a[1], a[2], options.rotate) ELSE a
    IN  IF options.scaleY10 # 10
        THEN <<b[1], Trunc(b[2] * options.scaleY10, 10)>> ELSE b

\* C9: in generateMapPic the transforms run in the fixed order shrink, then
\* rotation, then Y-axis scale, each step being skipped only when its
\* parameter is the identity (shrink = 1, rotate = 0, scaleY = 1), and all
\* three have completed before checkHOM, genWalls, parseThings or drawMap
\* read any vertex or object coordinate; no coordinate is changed after wall
\* synthesis begins.
C9_TransformsBeforeReads ==
    ~Transforming =>
        /\ stages = StagesAsked
        /\ \A k \in DOMAIN vertexes :
            <<vertexes[k].x, vertexes[k].y>>
                = Transformed(loaded.vertexes[k].x, loaded.vertexes[k].y)
        /\ \A k \in DOMAIN things :
            <<things[k].x, things[k].y>>
                = Transformed(loaded.things[k].x, loaded.things[k].y)

\* drawMap has returned a picture of a level with objects that was shrunk,
\* rotated and scaled, which moved a vertex and an object
C9_Witness ==
    /\ pc = "returned"
    /\ stages = <<"shrink", "rotate", "scaleY">>
    /\ Len(drawLog) > 2
    /\ \E k \in DOMAIN vertexes : vertexes[k] # loaded.vertexes[k]
    /\ \E k \in DOMAIN things :
        <<things[k].x, things[k].y>> # <<loaded.things[k].x, loaded.things[k].y>>

(***************************************************************************)
(* The archive reader of a flat container: WADData built from the bytes of *)
(* a file (header, lump data, directory), then setMap and getLump calls.   *)
(* A name is the sequence of the code points of the Python string.         *)
(***************************************************************************)
\* Lump.seek(newPosition)
Seek(l, newPosition) == [l EXCEPT !.position = newPosition]

\* addTrailingZeros(name) on code points
addTrailingZeroCodes(name) ==
    IF Len(name) < 8 THEN name \o [k \in 1..(8 - Len(name)) |-> 0] ELSE name

\* WADData.readWADinfo
readWADinfo(fs) ==
    LET rtype == Read(fs, 4)
        rnum == Read(rtype.lump, 4)
        rofs == Read(rnum.lump, 4)
    IN  [numLumps |-> Signed(rnum.bytes), infoTableOfs |-> Signed(rofs.bytes),
         fs |-> rofs.lump]

RECURSIVE DirectoryFrom(_, _)
\* the loop of readWADdirectory, count entries to go
DirectoryFrom(fs, count) ==
    IF count <= 0 THEN [infoTable |-> <<>>, fs |-> fs]
    ELSE LET rpos == Read(fs, 4)
             rsize == Read(rpos.lump, 4)
             rname == Read(rsize.lump, 8)
             rest == DirectoryFrom(rname.lump, count - 1)
         IN  [infoTable |-> <<[filePos |-> Signed(rpos.bytes),
                               size |-> Signed(rsize.bytes),
                               lumpName |-> rname.bytes]>> \o rest.infoTable,
              fs |-> rest.fs]

\* WADData.readWADdirectory; decoding ISO-8859-1 maps byte c to code point c
readWADdirectory(fs, numLumps, infoTableOfs) ==
    DirectoryFrom(Seek(fs, infoTableOfs), numLumps)

\* WADData.genListOfLumps
genListOfLumps(infoTable) == {infoTable[k].lumpName : k \in 1..Len(infoTable)}

\* WADData(bytedata=...)
WADData(bytedata) ==
    LET info == readWADinfo(Lump(bytedata))
        dir == readWADdirectory(info.fs, info.numLumps, info.infoTableOfs)
    IN  [open |-> TRUE, fs |-> dir.fs, numLumps |-> info.numLumps,
         infoTableOfs |-> info.infoTableOfs, infoTable |-> dir.infoTable,
         mapInfoTable |-> <<>>, mapFound |-> FALSE,
         listOfLumps |-> genListOfLumps(dir.infoTable)]

\* Python's "a in b" for strings
IsSubstring(a, b) ==
    \E k \in 0..(Len(b) - Len(a)) : SubSeq(b, k + 1, k + Len(a)) = a

VERTEXES == <<86, 69, 82, 84, 69, 88, 69, 83>>
LINEDEFS == <<76, 73, 78, 69, 68, 69, 70, 83>>
SIDEDEFS == <<83, 73, 68, 69, 68, 69, 70, 83>>
SECTORS == <<83, 69, 67, 84, 79, 82, 83>>
THINGS == <<84, 72, 73, 78, 71, 83>>

\* setMap's requiredLumps
RequiredLumps ==
    <<VERTEXES, LINEDEFS, SIDEDEFS, SECTORS \o <<0>>, THINGS \o <<0, 0>>>>

RECURSIVE SetMapFrom(_, _, _)
\* the loop of setMap from entry st.k on
SetMapFrom(st, infoTable, mapNameFixed) ==
    IF st.k > Len(infoTable) THEN st
    ELSE LET info == infoTable[st.k]
             foundMap == st.foundMap \/ IsSubstring(mapNameFixed, info.lumpName)
             copy == foundMap /\ info.lumpName \in Range(st.required)
             table == IF copy THEN Append(st.table, info) ELSE st.table
             required == IF copy
                         THEN SelectSeq(st.required,
                                        LAMBDA r : r # info.lumpName)
                         ELSE st.required
         IN  IF required = <<>>
             THEN [k |-> st.k, foundMap |-> foundMap, required |-> required,
                   table |-> table, mapFound |-> TRUE]
             ELSE SetMapFrom([k |-> st.k + 1, foundMap |-> foundMap,
                              required |-> required, table |-> table,
                              mapFound |-> st.mapFound],
                             infoTable, mapNameFixed)

\* WADData.setMap(mapName): the object after the call
setMap(w, mapName) ==
    LET end == SetMapFrom([k |-> 1, foundMap |-> FALSE,
                           required |-> RequiredLumps, table |-> <<>>,
                           mapFound |-> w.mapFound],
                          w.infoTable, addTrailingZeroCodes(mapName))
    IN  [w EXCEPT !.mapInfoTable = end.table, !.mapFound = end.mapFound]

\* the table getLump searches for a name
LumpInfo(w, lumpName) ==
    IF lumpName \in {VERTEXES, LINEDEFS, SIDEDEFS, SECTORS, THINGS}
    THEN w.mapInfoTable ELSE w.infoTable

\* WADData.getLump(lumpName): the lump returned (NoLump for None) and the
\* file with its pointer moved
getLump(w, lumpName) ==
    LET lumpInfo == LumpInfo(w, lumpName)
        fixedLumpName == addTrailingZeroCodes(lumpName)
        hits == {k \in 1..Len(lumpInfo) :
                    lumpInfo[k].lumpName = fixedLumpName}
    IN  IF hits = {} THEN [lump |-> NoLump, fs |-> w.fs]
        ELSE LET info == lumpInfo[SetMin(hits)]
                 r == Read(Seek(w.fs, info.filePos), info.size)
             IN  [lump |-> Lump(r.bytes), fs |-> r.lump]

(***************************************************************************)
(* The files of the modelled runs: up to MaxLumps one-byte lumps with      *)
(* names that differ in letter case, and one file with a whole level.      *)
(***************************************************************************)
\* a 32-bit value below 65536, little-endian
Bytes4(v) == Bytes2(v) \o <<0, 0>>

PLAYPAL == <<80, 76, 65, 89, 80, 65, 76>>
PlaypalLower == <<112, 108, 97, 121, 112, 97, 108>>
WALL1 == <<87, 65, 76, 76, 49>>
Wall1Mixed == <<87, 97, 108, 108, 49>>
E1M1 == <<69, 49, 77, 49>>
E1M1Lower == <<101, 49, 109, 49>>

\* the bytes of a flat container whose k-th lump is the byte 100 + k
WadFile(names) ==
    LET count == Len(names)
    IN  <<80, 87, 65, 68>> \o Bytes4(count) \o Bytes4(12 + count)
            \o [k \in 1..count |-> 100 + k]
            \o Concat([k \in 1..count |->
                        Bytes4(12 + k - 1) \o Bytes4(1) \o Name8(names[k])])

StoredNames == {PLAYPAL, PlaypalLower, WALL1, Wall1Mixed, E1M1, VERTEXES}

SampleDirectories ==
    UNION {[1..c -> StoredNames] : c \in 0..MaxLumps}
        \cup {<<E1M1, THINGS, LINEDEFS, SIDEDEFS, VERTEXES, SECTORS>>}

LookupNames == {PLAYPAL, PlaypalLower, WALL1, VERTEXES, THINGS}

InitArchive ==
    /\ IdleRaster /\ IdleBatch /\ IdleDecode /\ IdlePaint /\ IdleThings
    /\ IdleImage
    /\ \E names \in SampleDirectories : wad = WADData(WadFile(names))
    /\ fetched = [asked |-> FALSE]

\* wad.setMap(mapName)
SetMap ==
    /\ \E mapName \in {E1M1, E1M1Lower} : wad' = setMap(wad, mapName)
    /\ UNCHANGED <<fetched, im, pallete, imLog>>
    /\ UNCHANGED notArchive

\* wad.getLump(lumpName); the table searched is kept with the result
GetLump ==
    /\ \E lumpName \in LookupNames :
        LET r == getLump(wad, lumpName)
        IN  /\ wad' = [wad EXCEPT !.fs = r.fs]
            /\ fetched' = [asked |-> TRUE, name |-> lumpName,
                           searched |-> LumpInfo(wad, lumpName),
                           lump |-> r.lump]
    /\ UNCHANGED <<im, pallete, imLog>>
    /\ UNCHANGED notArchive

NextArchive == SetMap \/ GetLump

SpecArchive == InitArchive /\ [][NextArchive]_vars

\* two names that differ at most in letter case
SameButCase(a, b) == UpperCodes(a) = UpperCodes(b)

\* C13: name matching in the archive reader is case-normalized: for the
\* flat container, getLump returns the lump whenever the lookup name and a
\* stored directory name differ only in letter case.
C13_CaseNormalizedLookup ==
    fetched.asked =>
        \A k \in 1..Len(fetched.searched) :
            SameButCase(fetched.searched[k].lumpName,
                        addTrailingZeroCodes(fetched.name))
                => ~fetched.lump.isNone

(***************************************************************************)
(* palletizePic and gammaCorrection on a small image.  An image is its     *)
(* mode and the sequence of its pixels; a pixel is <<r, g, b>> in mode RGB *)
(* and <<r, g, b, a>> in mode RGBA.  The gamma amount is in tenths.        *)
(***************************************************************************)
\* px[i,j][:3]
Rgb(pixel) == SubSeq(pixel, 1, 3)

\* "px[i,j] = value": an RGB image takes the first three numbers, an RGBA
\* image given three numbers gets the alpha 255
PutPixel(mode, value) ==
    IF mode = "RGB" THEN Rgb(value)
    ELSE IF Len(value) = 3 THEN value \o <<255>> ELSE value

\* "distance += abs(pixel[i]-pal[i])" for the three channels
PixDistance(pixel, pal) ==
    Abs(pixel[1] - pal[1]) + Abs(pixel[2] - pal[2]) + Abs(pixel[3] - pal[3])

\* a mutation of closestPix: half way between the pixel and the palette
closestPixHalfWay(pixel, pal) ==
    IF pal = <<>> THEN <<0, 0, 0>>
    ELSE LET best == CHOOSE k \in 1..Len(pal) :
                        \A m \in 1..Len(pal) :
                            PixDistance(pixel, pal[k])
                                <= PixDistance(pixel, pal[m])
         IN  [c \in 1..3 |-> (pixel[c] + pal[best][c]) \div 2]

\* closestPix(pixel, pallete): the first entry of the least distance, and
\* (0,0,0) when there is none; the cache returns what the search returns
closestPix(pixel, pal) ==
    IF pal = <<>> THEN <<0, 0, 0>>
    ELSE LET best == SetMin({k \in 1..Len(pal) :
                        \A m \in 1..Len(pal) :
                            PixDistance(pixel, pal[k])
                                <= PixDistance(pixel, pal[m])})
         IN  pal[best]

\* "transparency = 255; if len(px[i,j]) == 4: ..."
Transparency(pixel) ==
    IF Len(pixel) = 4 THEN (IF pixel[4] < 128 THEN 0 ELSE 255) ELSE 255

\* the body of palletizePic's loop for one pixel
PalletizedPixel(mode, pixel, pal) ==
    LET newpix == IF Rgb(pixel) \notin Range(pal)
                  THEN closestPix(Rgb(pixel), pal)
                  ELSE Rgb(pixel)
    IN  PutPixel(mode, newpix \o <<Transparency(pixel)>>)

\* palletizePic(im, pallete)
palletizePic(image, pal) ==
    [image EXCEPT !.px = [k \in 1..Len(image.px) |->
                            PalletizedPixel(image.mode, image.px[k], pal)]]

\* the channel values of the modelled images and palettes
Channels == {0, 1, 100, 128, 255}

\* int((data / 255) ** gamma * 255) in Python's float arithmetic, for the
\* amounts 0.7, 1 and 1.3
GammaTable ==
    [amount \in {7, 10, 13} |->
        CASE amount = 7 ->
                (0 :> 0 @@ 1 :> 5 @@ 100 :> 132 @@ 128 :> 157 @@ 255 :> 255)
          [] amount = 10 ->
                (0 :> 0 @@ 1 :> 1 @@ 100 :> 100 @@ 128 :> 128 @@ 255 :> 255)
          [] amount = 13 ->
                (0 :> 0 @@ 1 :> 0 @@ 100 :> 75 @@ 128 :> 104 @@ 255 :> 255)]

\* a mutation of gammaChannel: the product falls just short of the integer
gammaChannelShort(data, amount) == IF data = 0 THEN 0 ELSE data - 1

\* "pixel.append(int((data / 255) ** gamma * 255))"
gammaChannel(data, amount) == GammaTable[amount][data]

\* the body of gammaCorrection's loop for one pixel
GammaPixel(mode, pixel, amount) ==
    IF Rgb(pixel) = <<0, 0, 0>> THEN pixel
    ELSE PutPixel(mode, [k \in 1..3 |-> gammaChannel(pixel[k], amount)])

\* gammaCorrection(im, gamma)
gammaCorrection(image, amount) ==
    [image EXCEPT !.px = [k \in 1..Len(image.px) |->
                            GammaPixel(image.mode, image.px[k], amount)]]

SampleColours ==
    {<<0, 0, 0>>, <<255, 255, 255>>, <<100, 0, 0>>, <<128, 1, 0>>,
     <<1, 0, 0>>, <<100, 100, 128>>}

SampleAlphas == {0, 127, 128, 255}

\* no palette, two colours, and palettes with two entries at one distance
\* of the colour (1,0,0)
SamplePalletes ==
    {<<>>, <<<<0, 0, 0>>, <<255, 255, 255>>>>,
     <<<<100, 0, 0>>, <<0, 0, 0>>, <<1, 1, 0>>>>,
     <<<<1, 1, 0>>, <<0, 0, 0>>, <<128, 1, 0>>>>}

SampleImages ==
    {[mode |-> "RGB", px |-> p] :
        p \in UNION {[1..c -> SampleColours] : c \in 1..MaxPixels}}
    \cup {[mode |-> "RGBA", px |-> p] :
        p \in UNION {[1..c -> {rgb \o <<a>> : rgb \in SampleColours,
                                              a \in SampleAlphas}] :
                     c \in 1..MaxPixels}}

InitImage ==
    /\ IdleRaster /\ IdleBatch /\ IdleDecode /\ IdlePaint /\ IdleThings
    /\ wad = [open |-> FALSE]
    /\ fetched = [asked |-> FALSE]
    /\ im \in SampleImages
    /\ pallete \in SamplePalletes
    /\ imLog = [op |-> "none"]

\* "pic = palletizePic(pic, pallete)"
PalletizePic ==
    /\ im' = palletizePic(im, pallete)
    /\ imLog' = [op |-> "palletizePic", before |-> im]
    /\ UNCHANGED pallete
    /\ UNCHANGED notImage
    /\ UNCHANGED notArchive

\* the image holds only channel values of the gamma table
Untouched == \A k \in 1..Len(im.px) : \A c \in 1..3 : im.px[k][c] \in Channels

\* a call gammaCorrection(im, gamma)
GammaCorrection ==
    /\ Untouched
    /\ \E amount \in {7, 10, 13} :
        /\ im' = gammaCorrection(im, amount)
        /\ imLog' = [op |-> "gammaCorrection", before |-> im,
                     amount |-> amount]
    /\ UNCHANGED pallete
    /\ UNCHANGED notImage
    /\ UNCHANGED notArchive

\* generateMapPic after drawMap has returned its RGB image:
\* "if options["gamma"] != 1: gammaCorrection(im, options["gamma"])"
FinalGamma ==
    /\ Untouched
    /\ im.mode = "RGB"
    /\ \E amount \in {7, 10} :
        /\ im' = IF amount # 10 THEN gammaCorrection(im, amount) ELSE im
        /\ imLog' = [op |-> "final", before |-> im, amount |-> amount]
    /\ UNCHANGED pallete
    /\ UNCHANGED notImage
    /\ UNCHANGED notArchive

NextImage == PalletizePic \/ GammaCorrection \/ FinalGamma

SpecImage == InitImage /\ [][NextImage]_vars

\* C14: palette snapping is idempotent: palletizePic leaves the RGB value
\* of every pixel whose colour is already a palette entry unchanged, so
\* applying it to its own output changes no pixel.
C14_PalletizeIdempotent ==
    imLog.op = "palletizePic" =>
        /\ \A k \in 1..Len(im.px) :
            Rgb(imLog.before.px[k]) \in Range(pallete)
                => Rgb(im.px[k]) = Rgb(imLog.before.px[k])
        /\ palletizePic(im, pallete) = im

\* palletizePic has kept a palette colour and moved another colour and a
\* half-transparent alpha
C14_Witness ==
    /\ imLog.op = "palletizePic"
    /\ \E k \in 1..Len(im.px) : Rgb(imLog.before.px[k]) \in Range(pallete)
    /\ \E k \in 1..Len(im.px) :
        /\ Rgb(imLog.before.px[k]) \notin Range(pallete)
        /\ Rgb(im.px[k]) # Rgb(imLog.before.px[k])
        /\ Len(im.px[k]) = 4 /\ im.px[k][4] # imLog.before.px[k][4]

C15_WitnessFinal ==
    /\ imLog.op = "final" /\ imLog.amount = 10
    /\ \E k \in 1..Len(im.px) : imLog.before.px[k] # <<0, 0, 0>>

(***************************************************************************)
(* genWalls on a junction: one linedef between two vertexes, its front and *)
(* back sides present, absent (65535) or out of range, its vertex and the  *)
(* front side's sector in or out of range, with every order of the floor   *)
(* and ceiling heights of the two sectors.  The two sides carry different  *)
(* texture offsets and their sectors different light levels.               *)
(***************************************************************************)
InitWalls ==
    /\ IdleBatch /\ IdleDecode /\ IdlePaint /\ IdleThings
    /\ IdleArchive
    /\ \E beg \in {0, 2}, front \in {0, NoSide, 7}, back \in {1, NoSide, 7},
          topUnpegged \in {0, 1}, bottomUnpegged \in {0, 1},
          middle \in {NoTexture, "WALL"}, backMiddle \in {NoTexture, "GRATE"},
          frontSector \in {0, 5}, backFloor \in {0, 1, 2},
          backCeiling \in {2, 3, 4}, sky \in {"none", "front", "both"} :
            /\ vertexes = <<Vertex(0, 0), Vertex(3, 1)>>
            /\ linedefs = <<LineDef(beg, 1, front, back, topUnpegged,
                                    bottomUnpegged)>>
            /\ sidedefs = <<SideDef(4, 2, "UP1", "LOW1", middle, frontSector),
                            SideDef(8, 16, "UP2", "LOW2", backMiddle, 1)>>
            /\ sectors = <<Sector(1, 3, "FLOOR",
                                  IF sky = "none" THEN "CEIL" ELSE "F_SKY1",
                                  160),
                           Sector(backFloor, backCeiling, "FLOOR",
                                  IF sky = "both" THEN "F_SKY1" ELSE "CEIL",
                                  96)>>
    /\ pc = "checkHOM"
    /\ walls = <<>>
    /\ imSize = <<0, 0>> /\ offset = <<0, 0>>
    /\ px = NoImage /\ sectorData = NoImage
    /\ n = 0 /\ side = 0
    /\ fpc = "idle" /\ fillSector = -1 /\ startPix = <<0, 0>> /\ toGo = <<>>
    /\ snapPx = NoImage /\ snapSd = NoImage /\ written = {}
    /\ thisPix = <<0, 0>> /\ outcome = "none" /\ started = {}

NextWalls == CheckHOM \/ GenWalls \/ ParseThings \/ DrawBlueprint

SpecWalls == InitWalls /\ [][NextWalls]_vars

\* genWalls has returned the walls of the junction
WallsReturned == pc \in {"parseThings", "blueprint", "fill"}

\* the linedef of the junction and what its indices resolve to
TheLine == linedefs[1]
HasVertexes == TheLine.beg < Len(vertexes) /\ TheLine.end < Len(vertexes)
HasFront == TheLine.front < Len(sidedefs)
HasBack == TheLine.back < Len(sidedefs) /\ TheLine.back # NoSide
FrontSide == At(sidedefs, TheLine.front)
BackSide == At(sidedefs, TheLine.back)
FrontSector == At(sectors, FrontSide.sector)
BackSector == At(sectors, BackSide.sector)

\* the walls of the linedef in the order genWalls appended them, and those
\* of one position
LineWalls ==
    IF DOMAIN walls = {} THEN <<>> ELSE walls[CHOOSE d \in DOMAIN walls : TRUE]
WallsAt(position) == SelectSeq(LineWalls, LAMBDA w : w.position = position)

\* what the claim says of the middle part of the linedef
MiddlePartAsClaimed ==
    IF ~HasBack
    THEN /\ Len(WallsAt("proper")) = 1 /\ WallsAt("mid") = <<>>
         /\ WallsAt("proper")[1].floor = FrontSector.floorHeight
         /\ WallsAt("proper")[1].ceiling = FrontSector.ceilingHeight
    ELSE /\ Len(WallsAt("mid")) = 2 /\ WallsAt("proper") = <<>>
         /\ \A k \in 1..2 :
            /\ WallsAt("mid")[k].floor
                = Max2(FrontSector.floorHeight, BackSector.floorHeight)
            /\ WallsAt("mid")[k].ceiling
                = Min2(FrontSector.ceilingHeight, BackSector.ceilingHeight)
         /\ LET first == WallsAt("mid")[1]
                second == WallsAt("mid")[2]
            IN  /\ <<second.sx, second.sy>> = <<first.ex, first.ey>>
                /\ <<second.ex, second.ey>> = <<first.sx, first.sy>>
                /\ second.texture = BackSide.middle
                /\ second.xOffset = BackSide.xOffset
                /\ second.yOffset = BackSide.yOffset
                /\ second.light = BackSector.light

C17_AnchorsAsStated ==
    WallsReturned =>
        /\ \A k \in 1..Len(WallsAt("bottom")) :
            WallsAt("bottom")[k].fromTop = (TheLine.bottomUnpegged # 0)
        /\ \A k \in 1..Len(WallsAt("top")) :
            WallsAt("top")[k].fromTop = (TheLine.topUnpegged = 0)

\* C17, amended: the bottom wall is anchored from the top by default
\* (fromTop true when the bottom-unpegged flag is clear) and the top wall
\* from the bottom by default (fromTop false when the top-unpegged flag is
\* clear); setting the respective flag reverses the anchor.
C17_Anchors ==
    WallsReturned =>
        /\ \A k \in 1..Len(WallsAt("bottom")) :
            WallsAt("bottom")[k].fromTop = (TheLine.bottomUnpegged = 0)
        /\ \A k \in 1..Len(WallsAt("top")) :
            WallsAt("top")[k].fromTop = (TheLine.topUnpegged # 0)

\* a bottom and a top wall have been produced with the bottom-unpegged flag
\* set and the top-unpegged flag clear
C17_Witness ==
    /\ WallsReturned
    /\ WallsAt("bottom") # <<>> /\ WallsAt("top") # <<>>
    /\ TheLine.bottomUnpegged = 1 /\ TheLine.topUnpegged = 0

\* the wall carries the offsets of the back side record (the two sides of
\* the junction have different offsets)
FromBackSide(w) ==
    HasBack /\ w.xOffset = BackSide.xOffset /\ w.yOffset = BackSide.yOffset

\* C18: for every wall produced by genWalls, isBack is true if and only if
\* the wall's texture, offsets and light were taken from the linedef's back
\* side record; in particular the flag of one wall of a segment does not
\* depend on which side an earlier wall of the same segment was taken from.
C18_IsBackIffFromBackSide ==
    WallsReturned =>
        \A k \in 1..Len(LineWalls) :
            LineWalls[k].isBack = FromBackSide(LineWalls[k])

\* an index of the junction exceeds the size of the collection it refers to
OutOfRange ==
    \/ ~HasVertexes
    \/ TheLine.front >= Len(sidedefs) \/ TheLine.back >= Len(sidedefs)
    \/ \E k \in 1..Len(sidedefs) : sidedefs[k].sector >= Len(sectors)

\* C20: every cross-reference index that is out of bounds is treated as
\* absent by every stage: for any level in which a linedef's vertex, front
\* or back index, or a side's sector index, exceeds the size of the
\* collection it refers to, checkHOM, getImageSizeOffset, genWalls and
\* drawMap skip the offending element and none of them raises.
C20_OutOfRangeTreatedAsAbsent == OutOfRange => pc # "raised"

(***************************************************************************)
(* The two 'mid' walls genWalls makes of a two-sided linedef, handed to    *)
(* pasteWall in either order on an empty z-buffer.  The linedef runs       *)
(* between any two corners of a square of side WallSpan.                   *)
(***************************************************************************)
Corners == {<<x, y>> : x \in {0, WallSpan}, y \in {0, WallSpan}}

\* the 'mid' walls of a dictionary of walls with one key
MidWalls(dict) ==
    IF DOMAIN dict = {} THEN <<>>
    ELSE SelectSeq(dict[CHOOSE d \in DOMAIN dict : TRUE],
                   LAMBDA w : w.position = "mid")

InitMid ==
    /\ IdleBatch /\ IdleDecode /\ IdleThings
    /\ IdleArchive
    /\ \E a \in Corners, b \in Corners, middle \in {"WALL", "GRATE", "GLASS"},
          backMiddle \in {"WALL", "GRATE", NoTexture, "MISSING"},
          backFloor \in {0, 1}, backCeiling \in {1, MaxCeiling} :
            /\ vertexes = <<Vertex(a[1], a[2]), Vertex(b[1], b[2])>>
            /\ linedefs = <<LineDef(0, 1, 0, 1, 0, 0)>>
            /\ sidedefs = <<SideDef(4, 2, "UP1", "LOW1", middle, 0),
                            SideDef(8, 16, "UP2", "LOW2", backMiddle, 1)>>
            /\ sectors = <<Sector(0, MaxCeiling, "FLOOR", "CEIL", 160),
                           Sector(backFloor, backCeiling, "FLOOR", "CEIL",
                                  96)>>
    /\ walls = genWalls(vertexes, linedefs, sidedefs, sectors)
    /\ scene = MidWalls(walls)
    /\ pc = "off"
    /\ px = NoImage /\ sectorData = NoImage
    /\ n = 0 /\ side = 0
    /\ fpc = "idle" /\ fillSector = -1 /\ startPix = <<0, 0>> /\ toGo = <<>>
    /\ snapPx = NoImage /\ snapSd = NoImage /\ written = {}
    /\ thisPix = <<0, 0>> /\ outcome = "none" /\ started = {}
    /\ imSize = <<WallSpan + 3, WallSpan + 3>>
    /\ offset = <<1, 1>>
    /\ zBuffer = [p \in Raster(imSize) |-> NoDepth]
    /\ px2 = [p \in Raster(imSize) |-> 0]
    /\ pasted = <<>>

SpecMid == InitMid /\ [][NextPaste]_vars

\* the scene is the pair of 'mid' walls of one two-sided linedef
MidPair ==
    /\ Len(scene) = 2
    /\ scene[1].position = "mid" /\ scene[2].position = "mid"
    /\ <<scene[2].sx, scene[2].sy, scene[2].ex, scene[2].ey>>
        = <<scene[1].ex, scene[1].ey, scene[1].sx, scene[1].sy>>

\* the pixels the copying loop of pasteWall goes through for wall k
LoopPixels(k) ==
    LET columns == WallPixels(scene[k], PasteTextures, offset)
    IN  UNION {Range(columns[i]) : i \in 1..Len(columns)}

\* wall k of the scene has coloured a pixel of the picture
Painted(k) == \E p \in Raster(imSize) : px2[p] = k

\* C19: of the pair of 'mid' wall records of one two-sided segment at most
\* one writes pixels in a render (never both faces), and a drawn mid wall
\* is always drawn with the texture's own opacity, never with the fixed
\* back-face alpha of 80.
C19_OneFaceOwnOpacity ==
    MidPair =>
        /\ LoopPixels(1) = {} \/ LoopPixels(2) = {}
        /\ ~(Painted(1) /\ Painted(2))
        /\ \A k \in 1..2 : \A c \in LoopPixels(k) : c.opacity = c.alpha

\* both walls of a pair have been handed to pasteWall, both have a texture
\* that exists, and one of them has written a faint pixel of its texture
C19_Witness ==
    /\ MidPair /\ Len(pasted) = 2
    /\ getWallImage(scene[1], PasteTextures)
    /\ getWallImage(scene[2], PasteTextures)
    /\ Painted(1) \/ Painted(2)
    /\ \E k \in 1..2 : \E c \in LoopPixels(k) : c.opacity = 40

(***************************************************************************)
(* Every wall genWalls makes of one linedef, proper or 'mid', bottom and   *)
(* top, handed to pasteWall in any order on an empty z-buffer.  Each of    *)
(* the six texture names of the two sidedefs is the dash or a texture      *)
(* that exists.                                                            *)
(***************************************************************************)
\* every wall of a dictionary of walls, key after key
AllWalls(dict) == Concat([k \in 1..Len(SortedKeys(DOMAIN dict)) |->
                            dict[SortedKeys(DOMAIN dict)[k]]])

\* floor and ceiling of a sector of the junction
Storeys == {<<0, MaxCeiling>>, <<1, MaxCeiling - 1>>}

InitDash ==
    /\ IdleBatch /\ IdleDecode /\ IdleThings
    /\ IdleArchive
    /\ \E b \in Corners \ {<<0, 0>>}, back \in {1, NoSide},
          names \in [1..6 -> {NoTexture, "WALL"}],
          f \in Storeys, g \in Storeys :
            /\ vertexes = <<Vertex(0, 0), Vertex(b[1], b[2])>>
            /\ linedefs = <<LineDef(0, 1, 0, back, 0, 0)>>
            /\ sidedefs = <<SideDef(0, 0, names[1], names[2], names[3], 0),
                            SideDef(0, 0, names[4], names[5], names[6], 1)>>
            /\ sectors = <<Sector(f[1], f[2], "FLOOR", "CEIL", 160),
                           Sector(g[1], g[2], "FLOOR", "CEIL", 96)>>
    /\ walls = genWalls(vertexes, linedefs, sidedefs, sectors)
    /\ scene = AllWalls(walls)
    /\ pc = "off"
    /\ px = NoImage /\ sectorData = NoImage
    /\ n = 0 /\ side = 0
    /\ fpc = "idle" /\ fillSector = -1 /\ startPix = <<0, 0>> /\ toGo = <<>>
    /\ snapPx = NoImage /\ snapSd = NoImage /\ written = {}
    /\ thisPix = <<0, 0>> /\ outcome = "none" /\ started = {}
    /\ imSize = <<WallSpan + 3, WallSpan + 3>>
    /\ offset = <<1, 1>>
    /\ zBuffer = [p \in Raster(imSize) |-> NoDepth]
    /\ px2 = [p \in Raster(imSize) |-> 0]
    /\ pasted = <<>>

SpecDash == InitDash /\ [][NextPaste]_vars

\* wall k of the scene has the dash for a texture
Dashed(k) == scene[k].texture = NoTexture

\* pasteWall has just been called on wall k of the scene
JustPasted(k) == pasted' = Append(pasted, k)

\* C21: a wall of any kind (proper, mid, top, bottom) whose texture name is
\* the single dash never writes an image pixel or a z-buffer cell: it is
\* either not synthesized by genWalls or rejected by getWallImage before
\* any drawing.
C21_DashNeverDrawn ==
    [][\A k \in 1..Len(scene) :
        (JustPasted(k) /\ Dashed(k)) =>
            /\ ~getWallImage(scene[k], PasteTextures)
            /\ px2' = px2 /\ zBuffer' = zBuffer]_vars

\* a 'mid', a bottom and a top wall with the dash have been handed to
\* pasteWall, and so has a wall with a texture, which coloured a pixel
C21_Witness ==
    /\ \A position \in {"mid", "bottom", "top"} :
        \E k \in Range(pasted) : Dashed(k) /\ scene[k].position = position
    /\ \E k \in Range(pasted) : ~Dashed(k) /\ Painted(k)

(***************************************************************************)
(* parseThings on lists of objects: short lists of objects of every kind   *)
(* of flags and type under every difficulty and deathmatch setting, and    *)
(* longer lists of monsters under the default options.  The archive has    *)
(* the four frames of the zombieman and of the imp seen from angle 1, an   *)
(* all-angle barrel, a player, and no sprite of the Wolfenstein SS.        *)
(***************************************************************************)
\* the lump names of the archive, in an order its set may yield
FrameArchive ==
    [k \in 1..4 |-> addTrailingZeros(<<"P", "O", "S", "S", spriteFrames[k], "1">>)]
    \o [k \in 1..4 |-> addTrailingZeros(<<"T", "R", "O", "O", spriteFrames[k], "1">>)]
    \o <<addTrailingZeros(<<"B", "A", "R", "1", "A", "0">>),
         addTrailingZeros(<<"P", "L", "A", "Y", "A", "1">>)>>

\* objects of every kind of flags and type: a zombieman of every skill, a
\* multiplayer-only one, one of the two easier skills, one of the hardest
\* skill, a multiplayer-only one of the hardest skill, a player start, a
\* deathmatch start, a barrel and an object of no known type
FlagRoster ==
    <<Thing(1, 1, 270, 3004, 7), Thing(1, 1, 270, 3004, 23),
      Thing(1, 1, 270, 3004, 3), Thing(1, 1, 270, 3004, 4),
      Thing(1, 1, 270, 3004, 20), Thing(1, 1, 270, 1, 7),
      Thing(1, 1, 270, 11, 7), Thing(1, 1, 270, 2035, 7),
      Thing(1, 1, 270, 9999, 7)>>

\* a zombieman, an imp, a Wolfenstein SS and a barrel
MonsterRoster ==
    <<Thing(1, 1, 270, 3004, 7), Thing(2, 1, 270, 3001, 7),
      Thing(1, 2, 270, 84, 7), Thing(2, 2, 270, 2035, 7)>>

\* the lists of at most c objects of a roster
ListsOf(roster, c) ==
    {[k \in 1..Len(picks) |-> roster[picks[k]]] :
        picks \in UNION {[1..m -> 1..Len(roster)] : m \in 0..c}}

\* options["difficulty"] of the modelled runs: one skill bit, the default,
\* two bits at once
Difficulties == {1, 4, 5}

InitThings ==
    /\ IdleBatch /\ IdleDecode /\ IdlePaint /\ IdleDraw
    /\ IdleArchive
    /\ vertexes = <<>> /\ linedefs = <<>> /\ sidedefs = <<>> /\ sectors = <<>>
    /\ pc = "parseThings"
    /\ walls = <<>>
    /\ imSize = <<0, 0>> /\ offset = <<0, 0>>
    /\ px = NoImage /\ sectorData = NoImage
    /\ n = 0 /\ side = 0
    /\ fpc = "idle" /\ fillSector = -1 /\ startPix = <<0, 0>> /\ toGo = <<>>
    /\ snapPx = NoImage /\ snapSd = NoImage /\ written = {}
    /\ thisPix = <<0, 0>> /\ outcome = "none" /\ started = {}
    /\ \/ /\ things \in ListsOf(FlagRoster, MaxThings)
          /\ \E difficulty \in Difficulties, deathmatch \in BOOLEAN :
                options = [PlainOptions EXCEPT !.difficulty = difficulty,
                                               !.deathmatch = deathmatch]
       \/ /\ things \in ListsOf(MonsterRoster, MaxThings + 3)
          /\ options = PlainOptions
    /\ allLumps \in {FrameArchive, Reverse(FrameArchive)}
    /\ stages = <<>> /\ loaded = <<>>

NextThings == ParseThings

SpecThings == InitThings /\ [][NextThings]_vars

\* parseThings has returned
Parsed == pc = "blueprint"

\* the objects of the draw list
DrawList == UNION {Range(thingsList[d]) : d \in DOMAIN thingsList}

\* the type codes of the sprite table under the deathmatch setting
TableTypes ==
    IF options.deathmatch THEN (DOMAIN SpriteTable \ {1}) \cup {11}
    ELSE DOMAIN SpriteTable

\* all bits of the difficulty mask are set in the object's flags, its
\* multiplayer-only bit is clear or deathmatch is enabled, and its type is
\* in the table
Admitted(thing) ==
    /\ BitAnd(thing.options, options.difficulty) = options.difficulty
    /\ BitAnd(thing.options, 16) = 0 \/ options.deathmatch
    /\ thing.type \in TableTypes

\* C22: parseThings includes a placed object in the draw list if and only
\* if all bits of the requested difficulty mask are set in its options, its
\* multiplayer-only bit (16) is clear or deathmatch is enabled, and its
\* type code is in the sprite table, where enabling deathmatch removes
\* type 1 from the table and adds type 11 as a player sprite, and with
\* deathmatch disabled type 11 is not in the table.
C22_IncludedIffAdmitted ==
    Parsed =>
        /\ \A k \in 1..Len(things) :
            Admitted(things[k]) <=> \E e \in DrawList : e.id = k
        /\ \A e \in DrawList :
            /\ e.type = things[e.id].type
            /\ e.type = 11 =>
                e.sprite = <<>> \/ SubSeq(e.sprite, 1, 4) = SpriteTable[1]
            /\ e.type # 1 \/ ~options.deathmatch

\* under deathmatch a list with a player start and a deathmatch start has
\* been parsed, and with two difficulty bits asked a list with an object
\* that has only one of them
C22_Witness ==
    /\ Parsed
    /\ \/ /\ options.deathmatch
          /\ \E i, j \in 1..Len(things) :
                things[i].type = 1 /\ things[j].type = 11
          /\ \E e \in DrawList : e.type = 11 /\ e.sprite # <<>>
       \/ /\ options.difficulty = 5
          /\ \E i \in 1..Len(things) :
                things[i].type = 3004 /\ things[i].options = 4
          /\ DrawList # {}

\* an object of the draw list that needs a rotation-specific frame: a
\* 4-character prefix and no all-angle frame in the archive
Rotating(thing) ==
    /\ Admitted(thing)
    /\ Len(spriteMap(options.deathmatch)[thing.type]) = 4
    /\ findSprite(spriteMap(options.deathmatch)[thing.type], <<"A", "0">>,
                  allLumps) = <<>>

\* how many such objects come before object k of the list: of its type,
\* and of any type
RankInType(k) ==
    Cardinality({j \in 1..(k - 1) :
        Rotating(things[j]) /\ things[j].type = things[k].type})

RankInList(k) == Cardinality({j \in 1..(k - 1) : Rotating(things[j])})

\* the frame letter object e of the draw list was found with
FrameLetter(e) == e.sprite[5]

\* C23 as stated: among placed objects that need a rotation-specific frame,
\* the k-th such object of a given type (counting from 0) is searched with
\* letter number k mod 4, regardless of how many objects of other types
\* are processed in between.
C23_RoundRobinPerType ==
    Parsed =>
        \A e \in DrawList :
            (Rotating(things[e.id]) /\ e.sprite # <<>>) =>
                FrameLetter(e) = spriteFrames[(RankInType(e.id) % 4) + 1]

\* C23 amended: the k-th such object of the list, of whatever type, is
\* searched with letter number k mod 4.
C23_RoundRobinOverList ==
    Parsed =>
        \A e \in DrawList :
            (Rotating(things[e.id]) /\ e.sprite # <<>>) =>
                FrameLetter(e) = spriteFrames[(RankInList(e.id) % 4) + 1]

\* five monsters in a row, not all of one type, and the fifth is found
\* with the first letter again
C23_Witness ==
    /\ Parsed
    /\ \E e \in DrawList :
        /\ Rotating(things[e.id]) /\ RankInList(e.id) = 4
        /\ RankInType(e.id) < 4
        /\ e.sprite # <<>>
        /\ FrameLetter(e) = "A"

(***************************************************************************)
(* Properties of seam repair (checked under SpecFill).                     *)
(***************************************************************************)
\* fillSeams runs from this state to the next and returns
SeamsRepaired == pc = "fill" /\ pc' = "seamed"

\* the sectors of the filled pixels 4-adjacent to p
FilledAround(p) ==
    {sectorData[q] :
        q \in {r \in Raster(imSize) :
                /\ Abs(r[1] - p[1]) + Abs(r[2] - p[2]) = 1
                /\ px[r] = "cyan" /\ sectorData[r] # -1}}

\* C24: after seam repair, every outline-coloured pixel that was 4-adjacent
\* to filled pixels of exactly one resolved sector carries that sector's
\* index in the index buffer, an outline pixel adjacent to no filled pixel
\* stays unassigned (-1), and no index is ever inherited from a pixel that
\* was itself assigned by seam repair.
C24_SeamsInheritFromFills ==
    [][SeamsRepaired =>
        \A p \in Raster(imSize) :
            px[p] = "white" =>
                /\ Cardinality(FilledAround(p)) = 1
                    => sectorData'[p] \in FilledAround(p)
                /\ FilledAround(p) = {} => sectorData'[p] = -1
                /\ sectorData'[p] # -1 => sectorData'[p] \in FilledAround(p)]_vars

\* seam repair has returned on a room split in two sectors: an outline
\* pixel carries sector 0, another sector 1, one is still unassigned, and
\* one of them has an assigned outline pixel next to it
C24_Witness ==
    /\ pc = "seamed"
    /\ \E p, q, r \in Raster(imSize) :
        /\ px[p] = "blue" /\ sectorData[p] = 0
        /\ px[q] = "blue" /\ sectorData[q] = 1
        /\ px[r] = "white" /\ sectorData[r] = -1
        /\ \E t \in Raster(imSize) :
            /\ Abs(r[1] - t[1]) + Abs(r[2] - t[2]) = 1
            /\ px[t] = "blue"

(***************************************************************************)
(* Objects on pixels without a sector (checked under SpecDraw).            *)
(***************************************************************************)
\* the raster position of an object of the draw list
PicPosition(thing) == <<thing.x + offset[1], thing.y + offset[2]>>

\* the index buffer holds -1 at the object's pixel and one row above it
OnNoSector(thing) ==
    /\ PicPosition(thing) \in Raster(imSize)
    /\ sectorData[PicPosition(thing)] = -1
    /\ sectorData[Wrap(<<PicPosition(thing)[1], PicPosition(thing)[2] - 1>>,
                       imSize)] = -1

\* C25: a placed object whose raster position has no resolved sector (the
\* index buffer holds the unassigned value -1 at its pixel and at the pixel
\* one row above) is ignored: pasteThing is not called for it and it writes
\* no image pixel and no z-buffer cell.
C25_ThingOnNoSectorIgnored ==
    \A k \in 1..Len(drawLog) :
        (drawLog[k].what = "thing" /\ OnNoSector(drawLog[k].item))
            => ~drawLog[k].called /\ drawLog[k].wrote = {}

(***************************************************************************)
(* The blueprint and the index buffer between two fills (SpecFill).        *)
(***************************************************************************)
\* a fill attempt has ended: floodFill returned True, or it returned False
\* and the reverse fill has run
AttemptEnded == BetweenFills /\ outcome \in {"filled", "rolledBack"}

\* C27: between fill attempts of the sector rasterizer (after each
\* successful fill, and after each overflowing fill followed by its undo)
\* and until seam repair starts, a pixel of the blueprint has the filled
\* colour if and only if its entry in the index buffer is a sector index
\* (not -1); every background-coloured or outline-coloured pixel has index
\* -1; the pixels a successful fill coloured hold the sector of that fill,
\* and a pixel that held a sector index before an attempt holds the same
\* index after it.
C27_CyanIffIndexed ==
    AttemptEnded =>
        /\ \A p \in Raster(imSize) :
              /\ px[p] \in {"black", "white", "cyan"}
              /\ px[p] = "cyan" <=> sectorData[p] # -1
              /\ px[p] \in {"black", "white"} => sectorData[p] = -1
              /\ snapSd[p] # -1 => sectorData[p] = snapSd[p]
        /\ outcome = "filled" =>
              \A p \in written : px[p] = "cyan" /\ sectorData[p] = fillSector

\* a fill of one sector has coloured pixels of a blueprint in which
\* another sector had been filled before
C27_Witness ==
    /\ AttemptEnded /\ outcome = "filled" /\ Cardinality(written) >= 2
    /\ \E p \in Raster(imSize) : snapSd[p] \notin {-1, fillSector}

(***************************************************************************)
(* The z-buffer through one render (SpecDraw).                             *)
(***************************************************************************)
\* what a cell of the z-buffer and of the picture hold when a step of the
\* render begins: nothing and black before the floors are drawn
DepthBefore(p) == IF pc = "draw" THEN zBuffer[p] ELSE NoDepth
ColourBefore(p) == IF pc = "draw" THEN px2[p] ELSE Black

\* the pixels of the picture the solid pixels of an object's sprite land
\* on when it is pasted at (x, y)
SpritePixels(thing, at) ==
    IF thing.sprite \notin DOMAIN sprites THEN {}
    ELSE LET image == sprites[thing.sprite]
         IN  {<<at[1] - (image.w \div 2) + q[1], at[2] - image.h + q[2]>> :
                q \in {r \in (0..(image.w - 1)) \X (0..(image.h - 1)) :
                         Solid(image, thing.mirrored, r[1], r[2])}}

\* the depths of the candidate pixels the floors offer for the cell p
FloorCandidates(p) ==
    {q[2] : q \in {r \in Raster(imSize) :
                     /\ sectorData[r] # -1
                     /\ FloorTarget(r[1], r[2], sectorData, sectors) = p}}

\* the depths of the candidate pixels the wall at drawPos offers for p
WallCandidates(p) ==
    LET wall == CurrentJob.walls[CurrentJob.keys[drawPos.n]][drawPos.k]
        columns == WallPixels(wall, PasteTextures, offset)
    IN  {columns[i][r].y : <<i, r>> \in
            {c \in (1..Len(columns)) \X (1..(imSize[1] + imSize[2])) :
                /\ c[2] <= Len(columns[c[1]])
                /\ columns[c[1]][c[2]].pos = p}}

\* the depth of the candidate pixel the object at drawPos offers for p
ThingCandidates(p) ==
    LET thing == CurrentJob.thingsList[CurrentJob.keys[drawPos.n]][drawPos.k]
        e == ThingVisit([px2 |-> px2, zBuffer |-> zBuffer], drawPos,
                        CurrentJob).entry
    IN  IF e.called /\ p \in SpritePixels(thing, e.at)
        THEN {thing.y + offset[2]} ELSE {}

\* the depths of the candidates the next step of the render has for p
Candidates(p) ==
    IF pc = "seamed" THEN FloorCandidates(p)
    ELSE IF pc # "draw" \/ drawPos.n > Len(CurrentJob.keys) THEN {}
    ELSE IF drawPos.phase = "walls" THEN WallCandidates(p)
    ELSE ThingCandidates(p)

\* C28: throughout one render (floors, then walls and objects in draw
\* order) the value stored in a cell of the z-buffer never decreases: a
\* cell that the floors, a wall or an object changed holds the depth of
\* one of its candidate pixels, strictly greater than what the cell held
\* before, and where no candidate's depth is greater than the stored value
\* neither the picture nor the z-buffer changes.
C28_ZBufferNeverDecreases ==
    [][pc' = "draw" =>
        \A p \in Raster(imSize) :
            /\ zBuffer'[p] >= DepthBefore(p)
            /\ zBuffer'[p] # DepthBefore(p) =>
                  zBuffer'[p] \in Candidates(p) /\ zBuffer'[p] > DepthBefore(p)
            /\ (\A y \in Candidates(p) : y <= DepthBefore(p)) =>
                  zBuffer'[p] = DepthBefore(p) /\ px2'[p] = ColourBefore(p)]_vars

\* the next wall or object has a candidate that loses against a cell of
\* the z-buffer and one that wins a cell written before, after a wall or
\* an object that changed cells
C28_Witness ==
    /\ pc = "draw" /\ drawPos.n <= Len(CurrentJob.keys)
    /\ Len(drawLog) >= 2 /\ drawLog[Len(drawLog)].wrote # {}
    /\ \E p \in Raster(imSize) :
          Candidates(p) # {} /\ \A y \in Candidates(p) : y <= zBuffer[p]
    /\ \E p \in Raster(imSize) :
          zBuffer[p] > NoDepth /\ \E y \in Candidates(p) : y > zBuffer[p]

(***************************************************************************)
(* The map of an archive after several calls of setMap (SpecArchive).      *)
(***************************************************************************)
\* what setMap(mapName) returns: True when the five lumps were found
setMapReturns(w, mapName) ==
    SetMapFrom([k |-> 1, foundMap |-> FALSE, required |-> RequiredLumps,
                table |-> <<>>, mapFound |-> w.mapFound],
               w.infoTable, addTrailingZeroCodes(mapName)).required = <<>>

\* the entries of the directory at or after the first entry whose name
\* holds the map name
AfterMarker(w, mapName) ==
    {w.infoTable[k] : k \in {j \in 1..Len(w.infoTable) :
        \E m \in 1..j : IsSubstring(addTrailingZeroCodes(mapName),
                                    w.infoTable[m].lumpName)}}

\* C29: after any sequence of setMap calls on one WADData archive, the
\* mapFound flag reflects the most recent call: it is true if and only if
\* that call returned True (all five geometry lumps were found at or after
\* the requested map marker), and getLump for a geometry name searches
\* only entries collected by that most recent call.
C29_MapFoundReflectsLastCall ==
    [][\A mapName \in {E1M1, E1M1Lower} :
        (fetched' = fetched /\ wad' = setMap(wad, mapName)) =>
            /\ wad'.mapFound <=> setMapReturns(wad, mapName)
            /\ \A name \in {VERTEXES, LINEDEFS, SIDEDEFS, SECTORS, THINGS} :
                  Range(LumpInfo(wad', name)) \subseteq AfterMarker(wad, mapName)
      ]_vars

(***************************************************************************)
(* generateMapPic up to "Getting geometry: Done": the level is read from   *)
(* the iWAD and, when a pWAD is given, from the pWAD, and the two are      *)
(* combined.  wad is iData; lump holds the bytes of the file pWAD names    *)
(* (NoLump for pWAD = None); decoded is what getBasicData(pData) returned, *)
(* with pData after the call; loaded holds the colour map.  A value that   *)
(* is Python's False is FALSE.                                             *)
(***************************************************************************)
COLORMAP == <<67, 79, 76, 79, 82, 77, 65, 80>>

\* int.from_bytes(lump.read(1)) for the k-th byte from the start of a lump
\* not read before: 0 beyond its end
ByteAt(l, k) == IF k < Len(l.data) THEN l.data[k + 1] ELSE 0

\* getPallete(lump): [] or 256 colours
getPallete(l) ==
    IF l.isNone THEN <<>>
    ELSE [i \in 1..256 |-> <<ByteAt(l, 3 * (i - 1)), ByteAt(l, 3 * (i - 1) + 1),
                             ByteAt(l, 3 * (i - 1) + 2)>>]

\* getColorMap(lump): [] or 34 maps of 256 indexes
getColorMap(l) ==
    IF l.isNone THEN <<>>
    ELSE [i \in 1..34 |-> [j \in 1..256 |-> ByteAt(l, 256 * (i - 1) + j - 1)]]

\* wad after wad.getLump(lumpName)
AfterGetLump(w, lumpName) == [w EXCEPT !.fs = getLump(w, lumpName).fs]

\* getBasicData(wad, zStyle): whether the geometry was returned (the five
\* values are False otherwise), the five lists, the palette and the colour
\* map, the error a decoder raised, and wad after the call
getBasicData(w, z) ==
    LET w1 == AfterGetLump(w, PLAYPAL)
        w2 == AfterGetLump(w1, COLORMAP)
        w3 == AfterGetLump(w2, VERTEXES)
        w4 == AfterGetLump(w3, LINEDEFS)
        w5 == AfterGetLump(w4, SIDEDEFS)
        w6 == AfterGetLump(w5, SECTORS)
        results == <<getVertixes(getLump(w2, VERTEXES).lump).result,
                     getLineDefs(getLump(w3, LINEDEFS).lump, z).result,
                     getSideDefs(getLump(w4, SIDEDEFS).lump).result,
                     getSectors(getLump(w5, SECTORS).lump).result,
                     getThings(getLump(w6, THINGS).lump, z).result>>
        failed == {k \in 1..5 : results[k].status # "returned"}
        colours == CHOOSE c \in
                     {[pallete |-> getPallete(p), colorMap |-> getColorMap(m)] :
                        p \in {getLump(w, PLAYPAL).lump},
                        m \in {getLump(w1, COLORMAP).lump}} : TRUE
    IN  IF ~w.mapFound
        THEN [mapFound |-> FALSE, lists |-> <<>>, raised |-> "none",
              wad |-> w2] @@ colours
        ELSE IF failed # {}
        THEN [mapFound |-> TRUE, lists |-> <<>>,
              raised |-> results[SetMin(failed)].status,
              wad |-> w2] @@ colours
        ELSE [mapFound |-> TRUE,
              lists |-> [k \in 1..5 |-> results[k].value],
              raised |-> "none", wad |-> AfterGetLump(w6, THINGS)] @@ colours

\* a lump of an archive file
Entry(name, data) == [name |-> name, data |-> data]

\* the bytes of a flat container with the lumps entries
WadOf(entries) ==
    LET count == Len(entries)
        data == Concat([k \in 1..count |-> entries[k].data])
        Before(k) == Len(Concat([j \in 1..(k - 1) |-> entries[j].data]))
    IN  <<80, 87, 65, 68>> \o Bytes4(count) \o Bytes4(12 + Len(data)) \o data
            \o Concat([k \in 1..count |->
                        Bytes4(12 + Before(k)) \o Bytes4(Len(entries[k].data))
                            \o Name8(entries[k].name)])

\* the lumps of the level E1M1 with one sector, one line and one object,
\* the vertexes at the distance t; with no object when the THINGS lump is
\* empty
LevelEntries(t, withThings) ==
    <<Entry(E1M1, <<>>),
      Entry(THINGS, IF withThings
                    THEN Bytes2(t) \o Bytes2(t) \o Bytes2(270) \o Bytes2(3004)
                            \o Bytes2(7)
                    ELSE <<>>),
      Entry(LINEDEFS, Bytes2(0) \o Bytes2(1) \o Bytes2(1) \o Filler(4)
                        \o Bytes2(0) \o Bytes2(NoSide)),
      Entry(SIDEDEFS, Bytes2(0) \o Bytes2(0) \o Name8(<<45>>) \o Name8(<<45>>)
                        \o Name8(<<87, 65, 76, 76>>) \o Bytes2(0)),
      Entry(VERTEXES, Bytes2(t) \o Bytes2(0) \o Bytes2(0) \o Bytes2(t)),
      Entry(SECTORS, Bytes2(0) \o Bytes2(8 * t) \o Name8(<<70, 76, 79, 79, 82>>)
                        \o Name8(<<67, 69, 73, 76>>) \o Bytes2(160)
                        \o Filler(4))>>

\* the base archives: the level with a palette, the level with a colour
\* map, and an archive with a palette and no level
BaseArchives ==
    {LevelEntries(1, TRUE) \o <<Entry(PLAYPAL, <<1, 2, 3>>)>>,
     <<Entry(COLORMAP, <<4, 5>>)>> \o LevelEntries(1, TRUE),
     <<Entry(PLAYPAL, <<1, 2, 3>>)>>}

\* the patch archives: without the level (empty, a texture, a palette, the
\* marker and four of the five lumps) and with it (whole, and with an
\* empty THINGS lump)
PatchArchives ==
    {<<>>, <<Entry(WALL1, <<9>>)>>, <<Entry(PLAYPAL, <<7, 8, 9>>)>>,
     SubSeq(LevelEntries(2, TRUE), 1, 5),
     LevelEntries(2, TRUE), LevelEntries(2, FALSE),
     LevelEntries(2, TRUE) \o <<Entry(PLAYPAL, <<7, 8, 9>>),
                                Entry(COLORMAP, <<6>>)>>}

InitLoad ==
    /\ IdleBatch /\ IdlePaint /\ IdleDraw
    /\ vertexes = <<>> /\ linedefs = <<>> /\ sidedefs = <<>> /\ sectors = <<>>
    /\ pc = "iWAD" /\ walls = <<>>
    /\ imSize = <<0, 0>> /\ offset = <<0, 0>>
    /\ px = NoImage /\ sectorData = NoImage
    /\ n = 0 /\ side = 0
    /\ fpc = "idle" /\ fillSector = -1 /\ startPix = <<0, 0>> /\ toGo = <<>>
    /\ snapPx = NoImage /\ snapSd = NoImage /\ written = {}
    /\ thisPix = <<0, 0>> /\ outcome = "none" /\ started = {}
    /\ things = <<>> /\ allLumps = <<>> /\ options = PlainOptions
    /\ stages = <<>> /\ loaded = [colorMap |-> <<>>]
    /\ \E base \in BaseArchives : wad = WADData(WadOf(base))
    /\ lump \in {NoLump} \cup {Lump(WadOf(patch)) : patch \in PatchArchives}
    /\ zStyle \in BOOLEAN /\ kind = "pWAD"
    /\ decoded = [status |-> "pending", value |-> <<>>]
    /\ fetched = [asked |-> FALSE]
    /\ IdleImage

\* what the reading of the level leaves alone
notLoad == <<walls, imSize, offset, px, sectorData, n, side, fillVars,
             started, batchVars, paintVars, allLumps, options, stages,
             drawVars, fetched, im, imLog, zStyle, kind>>

\* the k-th of the five values getBasicData returned
Returned5(r, k) == IF r.mapFound THEN r.lists[k] ELSE FALSE

\* iData.setMap(mapName) and getBasicData(iData)
LoadBase ==
    /\ pc = "iWAD"
    /\ \E r \in {getBasicData(iData, FALSE) : iData \in {setMap(wad, E1M1)}} :
           /\ wad' = r.wad
           /\ pallete' = r.pallete
           /\ loaded' = [colorMap |-> r.colorMap]
           /\ IF r.raised # "none"
              THEN /\ pc' = "raised"
                   /\ UNCHANGED <<levelVars, sectors, things>>
              ELSE /\ vertexes' = Returned5(r, 1)
                   /\ linedefs' = Returned5(r, 2)
                   /\ sidedefs' = Returned5(r, 3)
                   /\ sectors' = Returned5(r, 4)
                   /\ things' = Returned5(r, 5)
                   /\ pc' = IF lump.isNone THEN "combined" ELSE "pWAD"
    /\ UNCHANGED <<lump, decoded, notLoad>>

\* pData = WADData(pWAD), pData.setMap(mapName) and
\* getBasicData(pData, zStyle)
LoadPatch ==
    /\ pc = "pWAD"
    /\ \E r \in {getBasicData(pData, zStyle) :
                    pData \in {setMap(WADData(lump.data), E1M1)}} :
           /\ decoded' = [status |-> IF r.raised = "none" THEN "returned"
                                    ELSE r.raised,
                          value |-> r]
           /\ pc' = IF r.raised = "none" THEN "combine" ELSE "raised"
    /\ UNCHANGED <<levelVars, sectors, things, wad, pallete, loaded, lump,
                   notLoad>>

\* one line of "Combine iWAD and pWAD data": the pWAD's value when it has a
\* length above 0
Combined(mine, theirs) == IF Len(theirs) > 0 THEN theirs ELSE mine

\* "Combine iWAD and pWAD data": len(False) raises TypeError
Combine ==
    /\ pc = "combine"
    /\ IF ~decoded.value.mapFound
       THEN /\ pc' = "raised"
            /\ decoded' = [decoded EXCEPT !.status = "TypeError"]
            /\ UNCHANGED <<levelVars, sectors, things, pallete, loaded>>
       ELSE /\ vertexes' = Combined(vertexes, decoded.value.lists[1])
            /\ linedefs' = Combined(linedefs, decoded.value.lists[2])
            /\ sidedefs' = Combined(sidedefs, decoded.value.lists[3])
            /\ sectors' = Combined(sectors, decoded.value.lists[4])
            /\ things' = Combined(things, decoded.value.lists[5])
            /\ pallete' = Combined(pallete, decoded.value.pallete)
            /\ loaded' = [colorMap |-> Combined(loaded.colorMap,
                                                decoded.value.colorMap)]
            /\ pc' = "combined"
            /\ UNCHANGED decoded
    /\ UNCHANGED <<wad, lump, notLoad>>

NextLoad == LoadBase \/ LoadPatch \/ Combine

SpecLoad == InitLoad /\ [][NextLoad]_vars

\* the geometry generateMapPic got from the base archive
BaseGeometry == getBasicData(wad, FALSE)

\* a patch archive was given and the reading of it has ended
PatchRead == ~lump.isNone /\ pc \in {"combine", "combined", "raised"}

\* the five lists generateMapPic goes on with
Geometry == <<vertexes, linedefs, sidedefs, sectors, things>>

\* C30: when a patch archive (pWAD) is supplied that does not contain the
\* requested map while the base archive (iWAD) does, generateMapPic renders
\* the level from the base archive's geometry: each geometry list from the
\* patch archive replaces the base list only when it is non-empty, and the
\* absence of the map in the patch archive raises no failure.
C30_PatchWithoutMapFallsBack ==
    (PatchRead /\ BaseGeometry.mapFound /\ decoded.status \in {"returned", "TypeError"})
        => /\ ~decoded.value.mapFound =>
                /\ pc # "raised"
                /\ pc = "combined" => Geometry = BaseGeometry.lists
           /\ (decoded.value.mapFound /\ pc = "combined") =>
                \A k \in 1..5 :
                    Geometry[k] = IF decoded.value.lists[k] # <<>>
                                  THEN decoded.value.lists[k]
                                  ELSE BaseGeometry.lists[k]

(***************************************************************************)
(* getPicture on a lump in the column format, one round of the loop over   *)
(* the columns and one round of "while True" at a time.  The picture is    *)
(* the variable im, the position in the call is the variable decoded.      *)
(***************************************************************************)
\* b'PNG'
PNG == <<80, 78, 71>>

\* the palette getPallete reads from a PLAYPAL lump: 256 colours
FullPallete == [k \in 1..256 |-> <<k - 1, 0, 0>>]

RECURSIVE RunFrom(_, _, _, _, _, _, _)
\* "for j in range(length)" from j = run.j on: a pixel is read, looked up
\* in the palette and stored at (i, topdelta + j)
RunFrom(run, length, i, topdelta, image, pal, size) ==
    IF run.j >= length THEN run
    ELSE LET r == Read(run.lump, 1)
             pixel == Unsigned(r.bytes)
             at == <<i, topdelta + run.j>>
         IN  IF pixel >= Len(pal) \/ at \notin Raster(size)
             THEN [run EXCEPT !.lump = r.lump, !.ret = "IndexError"]
             ELSE RunFrom([lump |-> r.lump,
                           px |-> [run.px EXCEPT ![at] =
                                    PutPixel(image.mode, pal[pixel + 1])],
                           ret |-> "run", j |-> run.j + 1],
                          length, i, topdelta, image, pal, size)

\* one round of "while True": the byte 255 ends the column, any other
\* byte is the row of a run of pixels
ReadPostOf(l, image, i, pal) ==
    LET first == Read(l, 1)
        topdelta == Unsigned(first.bytes)
        second == Read(first.lump, 1)
        length == Unsigned(second.bytes)
        third == Read(second.lump, 1)
        run == RunFrom([lump |-> third.lump, px |-> image.px, ret |-> "run",
                        j |-> 0],
                       length, i, topdelta, image, pal, image.size)
    IN  IF topdelta = 255
        THEN [lump |-> first.lump, px |-> image.px, ret |-> "break"]
        ELSE IF run.ret = "IndexError"
        THEN [lump |-> run.lump, px |-> run.px, ret |-> "IndexError"]
        ELSE [lump |-> Read(run.lump, 1).lump, px |-> run.px, ret |-> "run"]

RECURSIVE PostOffsetsFrom(_, _)
\* the offsets of the columns that are still to be read
PostOffsetsFrom(l, count) ==
    IF count = 0 THEN [offsets |-> <<>>, lump |-> l]
    ELSE LET r == Read(l, 4)
             rest == PostOffsetsFrom(r.lump, count - 1)
         IN  [offsets |-> <<Unsigned(r.bytes)>> \o rest.offsets,
              lump |-> rest.lump]

\* getPicture up to the loop over the columns
getPictureHeader(l) ==
    LET w == Read(l, 2)
        h == Read(w.lump, 2)
        width == Unsigned(w.bytes)
        height == Unsigned(h.bytes)
        posts == PostOffsetsFrom(Read(h.lump, 4).lump, width)
    IN  IF l.isNone THEN [ret |-> "None", lump |-> l]
        ELSE IF SubSeq(l.data, 2, 4) = PNG THEN [ret |-> "png2pic", lump |-> l]
        ELSE IF width > 2000 \/ height > 2000
        THEN [ret |-> "None", lump |-> h.lump]
        ELSE [ret |-> "columns", lump |-> posts.lump,
              postOffsets |-> posts.offsets, size |-> <<width, height>>]

\* a lump in the column format
PictureLump(width, height, offsets, data) ==
    Lump(Bytes2(width) \o Bytes2(height) \o Filler(4)
         \o Concat([k \in 1..Len(offsets) |-> Bytes4(offsets[k])]) \o data)

\* the bytes of the column data: the row 0 or a run of no pixel or the
\* colour 0, the row 1 or a run of one pixel, and the end of a column
PostBytes == {0, 1, 255}

\* where the data of a column may begin: at the first byte after the offset
\* table, one byte further, and beyond the end of the lump
ColumnStarts(width, data) ==
    {8 + 4 * width, 9 + 4 * width, 8 + 4 * width + Len(data) + 3}

PicturesOf(data) ==
    {PictureLump(Len(offsets), height, offsets, data) :
        height \in {1, MaxPicture},
        offsets \in UNION {[1..w -> ColumnStarts(w, data)] :
                            w \in 0..MaxPicture}}

SamplePictures ==
    {NoLump, PictureLump(2001, 1, <<>>, <<>>)}
    \cup UNION {PicturesOf(data) :
                    data \in UNION {[1..c -> PostBytes] : c \in 0..MaxData}}

InitPicture ==
    /\ IdleRaster /\ IdleBatch /\ IdlePaint /\ IdleThings
    /\ wad = [open |-> FALSE]
    /\ fetched = [asked |-> FALSE]
    /\ imLog = [op |-> "none"]
    /\ kind = "PICTURE" /\ zStyle = FALSE
    /\ lump \in SamplePictures
    /\ pallete = FullPallete
    /\ im = [mode |-> "none", px |-> <<>>]
    /\ decoded = [status |-> "pending", value |-> <<>>]

\* what a step of getPicture leaves alone
notPicture == <<rasterVars, batchVars, paintVars, thingVars, drawVars, wad,
                fetched, pallete, imLog, zStyle, kind>>

\* where getPicture is in its loop over the columns
InColumn(i, postOffsets) == [i |-> i, postOffsets |-> postOffsets]

\* getPicture is called: the header and the offsets of the columns are
\* read and the image is created
GetPictureHeader ==
    /\ kind = "PICTURE" /\ decoded.status = "pending"
    /\ LET r == getPictureHeader(lump)
       IN  /\ lump' = r.lump
           /\ IF r.ret = "columns"
              THEN /\ decoded' = [status |-> "columns",
                                  value |-> InColumn(0, r.postOffsets)]
                   /\ im' = [mode |-> "RGBA", size |-> r.size,
                             px |-> [q \in Raster(r.size) |-> <<0, 0, 0, 0>>]]
              ELSE /\ decoded' = [status |-> "returned", value |-> r.ret]
                   /\ im' = im
    /\ UNCHANGED notPicture

\* "for i in range(im.size[0]): lump.seek(postOffsets[i])", or "return im"
\* after the last column
SeekColumn ==
    /\ kind = "PICTURE" /\ decoded.status = "columns"
    /\ IF decoded.value.i >= im.size[1]
       THEN /\ decoded' = [status |-> "returned", value |-> "im"]
            /\ lump' = lump
       ELSE /\ decoded' = [decoded EXCEPT !.status = "post"]
            /\ lump' = Seek(lump, decoded.value.postOffsets[decoded.value.i + 1])
    /\ UNCHANGED im
    /\ UNCHANGED notPicture

\* one round of "while True" in a column
ReadPost ==
    /\ kind = "PICTURE" /\ decoded.status = "post"
    /\ LET r == ReadPostOf(lump, im, decoded.value.i, pallete)
       IN  /\ lump' = r.lump
           /\ im' = [im EXCEPT !.px = r.px]
           /\ decoded' =
                CASE r.ret = "break" ->
                        [status |-> "columns",
                         value |-> [decoded.value EXCEPT !.i = @ + 1]]
                  [] r.ret = "IndexError" ->
                        [status |-> "IndexError", value |-> decoded.value]
                  [] OTHER -> decoded
    /\ UNCHANGED notPicture

NextPicture == GetPictureHeader \/ SeekColumn \/ ReadPost

SpecPicture == InitPicture /\ [][NextPicture]_vars

\* a round of "while True" that neither leaves the loop nor moves the lump
\* or the picture: the next round begins in the same state, and so does
\* every round after it
RoundInPlace ==
    /\ kind = "PICTURE" /\ decoded.status = "post"
    /\ LET r == ReadPostOf(lump, im, decoded.value.i, pallete)
       IN  r.ret = "run" /\ r.lump = lump /\ r.px = im.px

\* C26: getPicture terminates for every input lump of finite length: the
\* per-column decode loop eventually exits even when a column's data
\* reaches the end of the lump without a 255 terminator byte or contains
\* runs of length 0.  The rounds of the loop are deterministic, so the call
\* ends if and only if no round is begun that ends where it began.
C26_GetPictureTerminates == ~RoundInPlace
====
